---- MODULE Spec2Model ----
(***************************************************************************)
(* WebRedis: the HTTP handlers of the backend (listKeys, getKey, setKey,   *)
(* deleteKey, executeCommand) running as goroutines over one shared        *)
(* go-redis client, and the Redis server they talk to.                     *)
(*                                                                         *)
(* Every Redis command is one atomic step (one network round trip); the    *)
(* code between two commands of a handler is local and is folded into the  *)
(* step of the command that precedes it.  go-redis hands the connection    *)
(* that was released last to the next command, so commands that do not     *)
(* overlap in time all travel over one connection: its selected database   *)
(* is the variable `selected`.                                             *)
(***************************************************************************)
EXTENDS Integers, Sequences, FiniteSets, TLC

VARIABLES
    connections,  \* ids registered in the map `connections`
    clients,      \* the *redis.Client of each id, the clients closed so far
    selected,     \* database currently selected on the shared connection
    store,        \* the Redis server: database -> key -> entry
    req,          \* one record per request goroutine
    served,       \* number of requests that arrived so far
    ui,           \* the React state of the DatabaseViewer page
    call,         \* the page's pending api call per request
    trip,         \* a client that reads a key, writes back what it read, reads again
    tree          \* the key batch handed to buildTree and the tree it returned

vars == <<connections, clients, selected, store, req, served, ui, call, trip, tree>>

----------------------------------------------------------------------------
(* Bounds *)

MaxRequests == 2
MaxCalls == 3
MaxTTL == 1
MaxLen == 3
MaxBatch == 2
MaxName == 3
MaxSeconds == 61
MaxTicks == 3

Reqs == {1, 2}
ConnIds == {"c1", "c2"}
DBs == {0, 1}
Keys == {"a", "b"}
WriteKeys == {"a"}
Fields == {"f", "g"}
Cursors == {"0", "7"}
BatchSizes == {1}

----------------------------------------------------------------------------
(* Program constants *)

Second == 1000000000

Types == {"string", "list", "set", "hash", "zset"}
Collections == {"list", "set", "hash", "zset"}

----------------------------------------------------------------------------
(* Byte strings: a Go string is the sequence of its bytes *)

X == <<120>>
Y == <<121>>
Empty == <<>>

RECURSIVE Digits(_)
Digits(n) == IF n < 10 THEN <<48 + n>> ELSE Digits(n \div 10) \o <<48 + (n % 10)>>

\* strconv.AppendFloat(b, f, 'f', -1, 64) and json.Marshal of a float64,
\* for the whole numbers the model draws
FormatFloat(n) == IF n < 0 THEN <<45>> \o Digits(-n) ELSE Digits(n)

----------------------------------------------------------------------------
(* JSON values of request and response bodies *)

JNull == [j |-> "null"]
JStr(s) == [j |-> "string", v |-> s]
JNum(n) == [j |-> "number", v |-> n]
JArr(s) == [j |-> "array", v |-> s]
JObj(f) == [j |-> "object", v |-> f]

IsStr(x) == x.j = "string"
IsNum(x) == x.j = "number"
IsArr(x) == x.j = "array"
IsObj(x) == x.j = "object"

Has(o, name) == name \in DOMAIN o.v

----------------------------------------------------------------------------
(* The Redis server *)

None == [type |-> "none"]
StrEntry(s, e) == [type |-> "string", val |-> s, exp |-> e]
ListEntry(l, e) == [type |-> "list", val |-> l, exp |-> e]
SetEntry(m, e) == [type |-> "set", val |-> m, exp |-> e]
HashEntry(h, e) == [type |-> "hash", val |-> h, exp |-> e]
ZSetEntry(z, e) == [type |-> "zset", val |-> z, exp |-> e]

NoExpiry == -1

Exists(d, k) == store[d][k].type # "none"

\* TTL key: seconds to live, -1 without expiry, -2 without key
RedisTTL(d, k) ==
    IF ~Exists(d, k) THEN -2 ELSE store[d][k].exp

\* TYPE key
RedisType(d, k) == store[d][k].type

\* KEYS *: the names of the keys of the database
RedisKeys(d) == {k \in Keys : Exists(d, k)}

Put(d, k, e) == [store EXCEPT ![d][k] = e]

\* SET key value KEEPTTL in the place of a plain SET
RedisSetKeepTTL(d, k, s, secs) ==
    Put(d, k, StrEntry(s, IF secs > 0 THEN secs ELSE RedisTTL(d, k)))

\* SET key value [EX seconds]: replaces an entry of any type and its expiry
RedisSet(d, k, s, secs) ==
    Put(d, k, StrEntry(s, IF secs > 0 THEN secs ELSE NoExpiry))

\* a DEL that leaves the entry in place
RedisDelKeeps(d, k) == store

\* DEL key
RedisDel(d, k) == Put(d, k, None)

WrongType(d, k, t) == Exists(d, k) /\ store[d][k].type # t

Range(s) == {s[i] : i \in DOMAIN s}

\* RPUSH key value [value ...]
RedisRPush(d, k, s) ==
    IF Exists(d, k)
    THEN Put(d, k, [store[d][k] EXCEPT !.val = @ \o s])
    ELSE Put(d, k, ListEntry(s, NoExpiry))

\* SADD key member [member ...]
RedisSAdd(d, k, s) ==
    IF Exists(d, k)
    THEN Put(d, k, [store[d][k] EXCEPT !.val = @ \cup Range(s)])
    ELSE Put(d, k, SetEntry(Range(s), NoExpiry))

Assign(f, x, y) == [z \in DOMAIN f \cup {x} |-> IF z = x THEN y ELSE f[z]]
Single(x, y) == [z \in {x} |-> y]

\* HSET key field value
RedisHSet(d, k, f, s) ==
    IF Exists(d, k)
    THEN Put(d, k, [store[d][k] EXCEPT !.val = Assign(@, f, s)])
    ELSE Put(d, k, HashEntry(Single(f, s), NoExpiry))

\* ZADD key score member
RedisZAdd(d, k, sc, m) ==
    IF Exists(d, k)
    THEN Put(d, k, [store[d][k] EXCEPT !.val = Assign(@, m, sc)])
    ELSE Put(d, k, ZSetEntry(Single(m, sc), NoExpiry))

\* EXPIRE key seconds: no effect and no error on a missing key
RedisExpire(d, k, secs) ==
    IF Exists(d, k) THEN Put(d, k, [store[d][k] EXCEPT !.exp = secs]) ELSE store

\* FLUSHDB
RedisFlushDB(d) == [store EXCEPT ![d] = [k \in Keys |-> None]]

----------------------------------------------------------------------------
(* time.Duration and the go-redis argument encoding *)

\* Go's integer division truncates toward zero
Quot(a, b) == IF a >= 0 THEN a \div b ELSE -((-a) \div b)
Rem(a, b) == a - b * Quot(a, b)

\* Duration.Seconds(): float64(d / Second) + float64(d % Second) / 1e9,
\* kept as its two summands (whole seconds, nanoseconds)
Seconds(d) == [sec |-> Quot(d, Second), nsec |-> Rem(d, Second)]

\* DurationCmd of go-redis for TTL: the replies -1 and -2 become a Duration
\* of -1 and -2 (nanoseconds), any other reply n becomes n * time.Second
DurationReply(n) == IF n \in {-1, -2} THEN n ELSE n * Second

\* formatSec of go-redis: the seconds argument of SET .. EX and of EXPIRE
formatSec(d) == IF d > 0 /\ d < Second THEN 1 ELSE Quot(d, Second)

\* the argument writer of go-redis: a string goes as its bytes, a float64
\* formatted, nil as the empty string; a map or a slice in the place of one
\* field value or one member cannot be marshalled
CanAppendArg(v) == v.j \in {"string", "number", "null"}
appendArg(v) ==
    CASE v.j = "string" -> v.v
      [] v.j = "number" -> FormatFloat(v.v)
      [] OTHER -> Empty

\* bytewise order of two strings
RECURSIVE LessBytes(_, _)
LessBytes(a, b) ==
    IF a = <<>> THEN b # <<>>
    ELSE IF b = <<>> THEN FALSE
    ELSE IF a[1] # b[1] THEN a[1] < b[1]
    ELSE LessBytes(Tail(a), Tail(b))

\* the bytes of the member names of the objects in request bodies
NameBytes(n) ==
    CASE n = "f" -> <<102>>
      [] n = "g" -> <<103>>
      [] n = "score" -> <<115, 99, 111, 114, 101>>
      [] n = "member" -> <<109, 101, 109, 98, 101, 114>>
      [] n = "type" -> <<116, 121, 112, 101>>
      [] n = "data" -> <<100, 97, 116, 97>>

Perms(S) ==
    {p \in [1..Cardinality(S) -> S] : \A i, k \in DOMAIN p : i # k => p[i] # p[k]}

\* encoding/json writes the members of a map sorted by name
SortedNames(S) ==
    CHOOSE p \in Perms(S) :
        \A i, k \in DOMAIN p : i < k => LessBytes(NameBytes(p[i]), NameBytes(p[k]))

RECURSIVE Marshal(_)
RECURSIVE MarshalItems(_)
RECURSIVE MarshalMembers(_, _)
\* json.Marshal of a decoded JSON value
Marshal(v) ==
    CASE v.j = "null" -> <<110, 117, 108, 108>>
      [] v.j = "number" -> FormatFloat(v.v)
      [] v.j = "string" -> <<34>> \o v.v \o <<34>>
      [] v.j = "array" -> <<91>> \o MarshalItems(v.v) \o <<93>>
      [] OTHER -> <<123>> \o MarshalMembers(v.v, SortedNames(DOMAIN v.v)) \o <<125>>
MarshalItems(s) ==
    IF s = <<>> THEN <<>>
    ELSE IF Len(s) = 1 THEN Marshal(s[1])
    ELSE Marshal(s[1]) \o <<44>> \o MarshalItems(Tail(s))
MarshalMembers(o, names) ==
    IF names = <<>> THEN <<>>
    ELSE <<34>> \o NameBytes(names[1]) \o <<34, 58>> \o Marshal(o[names[1]])
         \o (IF Len(names) = 1 THEN <<>> ELSE <<44>> \o MarshalMembers(o, Tail(names)))

----------------------------------------------------------------------------
(* Requests *)

ErrBody(msg) == [j |-> "error", v |-> msg]

\* the registry at the start: one client, of connection c1; no client is
\* closed and the process runs
InitClients ==
    [of |-> [id \in ConnIds |-> IF id = "c1" THEN 1 ELSE 0], closed |-> {},
     made |-> 1, fatal |-> FALSE]

Idle ==
    [pc |-> "idle", op |-> "", id |-> "", db |-> 0, key |-> "", cursor |-> "0",
     batchSize |-> 0, data |-> JNull, keys |-> <<>>, i |-> 0, keyInfo |-> <<>>,
     ttl |-> 0, err |-> FALSE, status |-> 0, body |-> JNull, log |-> <<>>,
     argv |-> <<>>, reply |-> JNull, client |-> 0]

NewReq(op, id, db, key, cursor, batchSize, data) ==
    [Idle EXCEPT !.pc = "select", !.op = op, !.id = id, !.db = db, !.key = key,
                 !.cursor = cursor, !.batchSize = batchSize, !.data = data]

\* c.JSON(status, body) followed by return
Reply(r, status, body) == [r EXCEPT !.pc = "done", !.status = status, !.body = body]

\* one command sent over the connection: its name, the database that was
\* selected when the server ran it, and whether it returned without error
Sent(r, cmd, ok) ==
    [r EXCEPT !.log = Append(@, [cmd |-> cmd, on |-> selected, ok |-> ok])]

NotFound(r) == Reply(r, 404, ErrBody("Connection not found"))

\* func listConnections: the ids of the map, in the order of its iteration
ListConnectionsReplies(r) ==
    {Reply(r, 200, JArr(p)) : p \in Perms(connections)}

\* the handler up to its first command: listConnections answers at once, the
\* key handlers after client, exists := connections[id]
Routed(r) ==
    IF r.op = "listConnections" THEN ListConnectionsReplies(r)
    ELSE IF r.id \in connections THEN {r}
    ELSE {NotFound(r)}

\* a request arrives and gin starts its handler in the first free goroutine
Arrive(g, r) ==
    /\ req[g].pc = "idle"
    /\ \A h \in Reqs : req[h].pc = "idle" => g <= h
    /\ \E n \in Routed(r) : req' = [req EXCEPT ![g] = n]
    /\ UNCHANGED <<connections, clients, selected, store>>

\* a request of some other client of the API
Accept(g, r) ==
    /\ served < MaxRequests
    /\ served' = served + 1
    /\ Arrive(g, r)
    /\ UNCHANGED <<ui, call, trip, tree>>

----------------------------------------------------------------------------
(* Inputs *)

ZItem(sc, m) == JObj([score |-> JNum(sc), member |-> JStr(m)])

\* "type" and "value" of the setKey bodies: every type with a payload of its
\* shape, and payloads of another shape
Payloads ==
    { <<"string", JStr(X)>>,
      <<"string", JNum(1)>>,
      <<"list", JArr(<<JStr(X), JStr(Y)>>)>>,
      <<"list", JStr(X)>>,
      <<"set", JArr(<<JStr(X), JStr(Y)>>)>>,
      <<"set", JObj([f |-> JStr(X), g |-> JStr(Y)])>>,
      <<"hash", JObj([f |-> JStr(X), g |-> JStr(Y)])>>,
      <<"hash", JArr(<<JStr(X), JStr(Y)>>)>>,
      <<"zset", JArr(<<ZItem(1, Y), ZItem(2, X)>>)>>,
      <<"zset", JArr(<<ZItem(2, Y), JStr(X)>>)>>,
      <<"zset", JArr(<<JObj([member |-> JStr(X)])>>)>>,
      <<"zset", JNum(1)>>,
      <<"stream", JArr(<<JStr(X), JStr(Y)>>)>> }

\* the "ttl" of a setKey body, a float64, written in half seconds
TTLs == {0, 2 * MaxTTL + 1}

\* ShouldBindJSON fails on a body that is not the JSON of the struct
BadBody == [bound |-> FALSE]

SetBodies ==
    {BadBody} \cup
    {[bound |-> TRUE, Type |-> p[1], Value |-> p[2], TTL |-> ttl] :
        p \in Payloads, ttl \in TTLs}

\* commands the operator types into the console
Commands ==
    { <<"DEL", "a">>, <<"SET", "a", Y>>, <<"FLUSHDB">>, <<"KEYZ">> }

ExecBodies ==
    {BadBody} \cup
    {[bound |-> TRUE, Command |-> c[1], Args |-> Tail(c)] : c \in Commands}

----------------------------------------------------------------------------
(* The database-select step all five handlers start with *)

\* the errors of SELECT: the store cannot be reached, or it has no database
\* of that index (database 0 always exists)
Unreachable == "connection refused"
OutOfRange == "ERR DB index is out of range"
SelectErrors(db) == IF db = 0 THEN {Unreachable} ELSE {Unreachable, OutOfRange}

\* the same with deleteKey going on to its DEL after the failed SELECT
SelectFailedGoesOn(r, err) ==
    IF r.op = "deleteKey" THEN [Sent(r, "SELECT", FALSE) EXCEPT !.pc = "delete"]
    ELSE Reply(Sent(r, "SELECT", FALSE), 500,
               ErrBody("Failed to select database: connection refused"))

\* gin.H{"error": fmt.Sprintf("Failed to select database: %v", err)}
SelectFailed(r, err) ==
    Reply(Sent(r, "SELECT", FALSE), 500,
          ErrBody(IF err = OutOfRange
                  THEN "Failed to select database: ERR DB index is out of range"
                  ELSE "Failed to select database: connection refused"))

\* math.Max(0, math.Floor(data.TTL)) * time.Second
ttlSeconds(data) ==
    LET floor == data.TTL \div 2
    IN  (IF floor > 0 THEN floor ELSE 0) * Second

\* the elements the population loop of setKey walks, in its order; the
\* type assertion on data.Value panics when the payload has another shape
ShapeOK(data) ==
    IF data.Type = "hash" THEN IsObj(data.Value) ELSE IsArr(data.Value)

Orders(data) ==
    IF data.Type = "hash"
    THEN Perms(DOMAIN data.Value.v)
    ELSE {[i \in DOMAIN data.Value.v |-> i]}

\* the same with the default case of the switch missing
SetKeyBoundNoDefault(r, data, order) ==
    IF ~data.bound THEN Reply(r, 400, ErrBody("Invalid request data"))
    ELSE IF data.Type = "string" THEN [r EXCEPT !.pc = "set", !.data = data]
    ELSE IF data.Type \in Collections /\ ~ShapeOK(data)
         THEN Reply([r EXCEPT !.data = data], 500, JNull)
    ELSE [r EXCEPT !.pc = "del", !.data = data, !.keys = order]

\* setKey from its ShouldBindJSON to the first command after SELECT
SetKeyBound(r, data, order) ==
    IF ~data.bound THEN Reply(r, 400, ErrBody("Invalid request data"))
    ELSE IF data.Type = "string" THEN [r EXCEPT !.pc = "set", !.data = data]
    ELSE IF data.Type \notin Collections
         THEN Reply([r EXCEPT !.data = data], 400, ErrBody("Unsupported key type"))
    ELSE IF ~ShapeOK(data) THEN Reply([r EXCEPT !.data = data], 500, JNull)
    ELSE [r EXCEPT !.pc = "del", !.data = data, !.keys = order]

\* executeCommand from its ShouldBindJSON to client.Do
ExecuteBound(r, data) ==
    IF ~data.bound THEN Reply(r, 400, ErrBody("Invalid request body"))
    ELSE [r EXCEPT !.pc = "do", !.data = data]

\* the request bodies a handler can find when it binds: the body the client
\* of the request is known to have sent, or any body
Bodies(r) ==
    IF r.data # JNull THEN {r.data}
    ELSE CASE r.op = "setKey" -> SetBodies
           [] r.op = "executeCommand" -> ExecBodies
           [] OTHER -> {JNull}

AfterSelect(r, data, order) ==
    CASE r.op = "listKeys" -> [r EXCEPT !.pc = "keys"]
      [] r.op = "getKey" -> [r EXCEPT !.pc = "type"]
      [] r.op = "setKey" -> SetKeyBound(r, data, order)
      [] r.op = "deleteKey" -> [r EXCEPT !.pc = "delete"]
      [] OTHER -> ExecuteBound(r, data)

SelectOrders(r, data) ==
    IF r.op = "setKey" /\ data.bound /\ data.Type \in Collections /\ ShapeOK(data)
    THEN Orders(data) ELSE {<<>>}

\* client.Do(c, "SELECT", db), and the handler up to its next command
Select(g) ==
    /\ req[g].pc = "select"
    /\ \E ok \in BOOLEAN :
        IF ok
        THEN /\ selected' = req[g].db
             /\ \E data \in Bodies(req[g]) :
                \E order \in SelectOrders(req[g], data) :
                  req' = [req EXCEPT
                            ![g] = AfterSelect(Sent(req[g], "SELECT", TRUE),
                                               data, order)]
        ELSE /\ \E err \in SelectErrors(req[g].db) :
                  req' = [req EXCEPT ![g] = SelectFailed(req[g], err)]
             /\ UNCHANGED selected
    /\ UNCHANGED <<connections, clients, store, served, ui, call, trip, tree>>

----------------------------------------------------------------------------
(* listKeys *)

ListKeysStart(g) ==
    \E id \in ConnIds, db \in DBs,
       cursor \in Cursors, batchSize \in BatchSizes :
        Accept(g, NewReq("listKeys", id, db, "", cursor, batchSize, JNull))

\* c.JSON(http.StatusOK, keyInfo)
ListKeysReply(r) == Reply(r, 200, JArr(r.keyInfo))

\* keys, err := client.Keys(c, "*").Result()
\* the server lists the keys of the selected database in an order of its own
ListKeysKeys(g) ==
    /\ req[g].pc = "keys"
    /\ \E ok \in BOOLEAN :
        IF ok
        THEN \E keys \in Perms(RedisKeys(selected)) :
               LET r == [Sent(req[g], "KEYS", TRUE) EXCEPT !.keys = keys, !.i = 1]
               IN  req' = [req EXCEPT
                             ![g] = IF keys = <<>> THEN ListKeysReply(r)
                                    ELSE [r EXCEPT !.pc = "ttl"]]
        ELSE req' = [req EXCEPT
                       ![g] = Reply(Sent(req[g], "KEYS", FALSE), 500,
                                    ErrBody("keys failed"))]
    /\ UNCHANGED <<connections, clients, selected, store, served, ui, call, trip, tree>>

\* ttl, err := client.TTL(c, key).Result(); if err != nil { ttl = -2 }
ListKeysTTL(g) ==
    /\ req[g].pc = "ttl"
    /\ \E ok \in BOOLEAN :
        LET r == req[g]
            ttl == IF ok THEN DurationReply(RedisTTL(selected, r.keys[r.i]))
                   ELSE -2
        IN  req' = [req EXCEPT
                      ![g] = [Sent(r, "TTL", ok) EXCEPT !.ttl = ttl, !.pc = "type"]]
    /\ UNCHANGED <<connections, clients, selected, store, served, ui, call, trip, tree>>

KeyInfo(key, ttl, keyType) ==
    [key |-> key, ttl |-> Seconds(ttl), type |-> keyType]

\* the same without the check of err: the zero value of the failed reply
keyTypeUnchecked(ok, reply) == IF ok THEN reply ELSE ""

\* keyType after: if err != nil { keyType = "unknown" }
keyTypeOr(ok, reply) == IF ok THEN reply ELSE "unknown"

\* keyType, err := client.Type(c, key).Result(); if err != nil { "unknown" }
\* keyInfo[i] = {key, ttl.Seconds(), keyType}, then the next key or the reply
ListKeysType(g) ==
    /\ req[g].pc = "type" /\ req[g].op = "listKeys"
    /\ \E ok \in BOOLEAN :
        LET r == req[g]
            key == r.keys[r.i]
            keyType == keyTypeOr(ok, RedisType(selected, key))
            n == [Sent(r, "TYPE", ok) EXCEPT
                    !.keyInfo = Append(@, KeyInfo(key, r.ttl, keyType)),
                    !.i = @ + 1]
        IN  req' = [req EXCEPT
                      ![g] = IF n.i > Len(n.keys) THEN ListKeysReply(n)
                             ELSE [n EXCEPT !.pc = "ttl"]]
    /\ UNCHANGED <<connections, clients, selected, store, served, ui, call, trip, tree>>

----------------------------------------------------------------------------
(* setKey *)

SetKeyStart(g) ==
    \E id \in ConnIds, db \in DBs, key \in WriteKeys :
        Accept(g, NewReq("setKey", id, db, key, "0", 0, JNull))

SetFailed(r) == Reply(r, 500, ErrBody("Failed to set key"))

\* the string case: data.Value verbatim when it is a string, else its JSON
strValue(data) == IF IsStr(data.Value) THEN data.Value.v ELSE Marshal(data.Value)

\* err = client.Set(c, key, strValue, ttlSeconds).Err()
SetKeySet(g) ==
    /\ req[g].pc = "set"
    /\ \E ok \in BOOLEAN :
        LET r == Sent(req[g], "SET", ok)
        IN  IF ok
            THEN /\ store' = RedisSet(selected, r.key, strValue(r.data),
                                      formatSec(ttlSeconds(r.data)))
                 /\ req' = [req EXCEPT ![g] = Reply(r, 200, JNull)]
            ELSE /\ req' = [req EXCEPT ![g] = SetFailed(r)]
                 /\ UNCHANGED store
    /\ UNCHANGED <<connections, clients, selected, served, ui, call, trip, tree>>

\* after the population loop: the reply for err, then the TTL of a
\* collection, then c.Status(http.StatusOK)
Populated(r) ==
    IF r.err THEN SetFailed(r)
    ELSE IF ttlSeconds(r.data) > 0 THEN [r EXCEPT !.pc = "expire"]
    ELSE Reply(r, 200, JNull)

\* client.Del(c, key) ahead of the loop over the payload
SetKeyDel(g) ==
    /\ req[g].pc = "del"
    /\ \E ok \in BOOLEAN :
        LET r == [Sent(req[g], "DEL", ok) EXCEPT !.i = 1]
        IN  IF ok
            THEN /\ store' = RedisDel(selected, r.key)
                 /\ req' = [req EXCEPT
                              ![g] = IF r.keys = <<>> THEN Populated(r)
                                     ELSE [r EXCEPT !.pc = "push"]]
            ELSE /\ req' = [req EXCEPT
                              ![g] = Reply(r, 500, ErrBody("Failed to clear existing"))]
                 /\ UNCHANGED store
    /\ UNCHANGED <<connections, clients, selected, served, ui, call, trip, tree>>

\* the element of the payload the loop is at
Element(r) == r.data.Value.v[r.keys[r.i]]

\* v.(map[string]interface{}) and item["score"].(float64) of the zset loop
ZItemOK(v) == IsObj(v) /\ Has(v, "score") /\ IsNum(v.v.score)
Member(v) == IF Has(v, "member") THEN v.v.member ELSE JNull

\* the value the write command of the loop carries
Written(r) == IF r.data.Type = "zset" THEN Member(Element(r)) ELSE Element(r)

WriteCmd(t) ==
    CASE t = "list" -> "RPUSH" [] t = "set" -> "SADD"
      [] t = "hash" -> "HSET" [] OTHER -> "ZADD"

\* k1, v1, k2, v2, ..: a map spread into arguments in the order p of its
\* iteration
Pairs(o, p) ==
    [i \in 1..(2 * Len(p)) |->
        IF i % 2 = 1 THEN JStr(NameBytes(p[(i + 1) \div 2])) ELSE o[p[i \div 2]]]

\* appendArgs of go-redis for the variadic RPush and SAdd: a single value
\* that is a slice or a map is spread into one argument per element
Spread(v) ==
    CASE IsArr(v) -> {v.v}
      [] IsObj(v) -> {Pairs(v.v, p) : p \in Perms(DOMAIN v.v)}
      [] OTHER -> {<<v>>}

\* the arguments after the key (and the field or score) of the write command
WriteArgs(r) ==
    IF r.data.Type \in {"list", "set"} THEN Spread(Written(r)) ELSE {<<Written(r)>>}

\* the effect of RPush / SAdd / HSet / ZAdd on the selected database
Write(r, args) ==
    LET t == r.data.Type
        b == [i \in DOMAIN args |-> appendArg(args[i])]
    IN  CASE t = "list" -> RedisRPush(selected, r.key, b)
          [] t = "set" -> RedisSAdd(selected, r.key, b)
          [] t = "hash" -> RedisHSet(selected, r.key, r.keys[r.i], b[1])
          [] OTHER -> RedisZAdd(selected, r.key, Element(r).v.score.v, b[1])

\* the same without the break: the loop goes on after an error
PushedOn(r, ok) ==
    LET q == IF ok THEN r ELSE [r EXCEPT !.err = TRUE]
    IN  IF q.i = Len(q.keys) THEN Populated(q) ELSE [q EXCEPT !.i = @ + 1]

\* the loop moves on, or ends after the last element or at the first error
Pushed(r, ok) ==
    IF ~ok THEN Populated([r EXCEPT !.err = TRUE])
    ELSE IF r.i = Len(r.keys) THEN Populated(r)
    ELSE [r EXCEPT !.i = @ + 1]

\* one turn of the loop: client.RPush / SAdd / HSet / ZAdd of one element
SetKeyPush(g) ==
    /\ req[g].pc = "push"
    /\ LET r == req[g]
           t == r.data.Type
       IN  IF t = "zset" /\ ~ZItemOK(Element(r))
           THEN \* the type assertion panics, gin's Recovery answers 500
                /\ req' = [req EXCEPT ![g] = Reply(r, 500, JNull)]
                /\ UNCHANGED store
           ELSE \E args \in WriteArgs(r) :
                IF \E i \in DOMAIN args : ~CanAppendArg(args[i])
                THEN \* go-redis cannot marshal the argument, nothing is sent
                     /\ req' = [req EXCEPT ![g] = Pushed(r, FALSE)]
                     /\ UNCHANGED store
                ELSE \E ok \in BOOLEAN :
                  \* without a value the server answers with an error
                  IF ok /\ ~WrongType(selected, r.key, t) /\ args # <<>>
                  THEN /\ store' = Write(r, args)
                       /\ req' = [req EXCEPT
                                    ![g] = Pushed(Sent(r, WriteCmd(t), TRUE), TRUE)]
                  ELSE /\ req' = [req EXCEPT
                                    ![g] = Pushed(Sent(r, WriteCmd(t), FALSE), FALSE)]
                       /\ UNCHANGED store
    /\ UNCHANGED <<connections, clients, selected, served, ui, call, trip, tree>>

\* the reply of a failed EXPIRE that reads like a failed write
TTLFailedAsWrite(r) == SetFailed(r)

\* c.JSON(http.StatusInternalServerError, "Failed to set TTL: ...")
TTLFailed(r) == Reply(r, 500, ErrBody("Failed to set TTL"))

\* err = client.Expire(c, key, ttlSeconds).Err()
SetKeyExpire(g) ==
    /\ req[g].pc = "expire"
    /\ \E ok \in BOOLEAN :
        LET r == Sent(req[g], "EXPIRE", ok)
        IN  IF ok
            THEN /\ store' = RedisExpire(selected, r.key, formatSec(ttlSeconds(r.data)))
                 /\ req' = [req EXCEPT ![g] = Reply(r, 200, JNull)]
            ELSE /\ req' = [req EXCEPT ![g] = TTLFailed(r)]
                 /\ UNCHANGED store
    /\ UNCHANGED <<connections, clients, selected, served, ui, call, trip, tree>>

----------------------------------------------------------------------------
(* deleteKey *)

DeleteKeyStart(g) ==
    \E id \in ConnIds, db \in DBs, key \in WriteKeys :
        Accept(g, NewReq("deleteKey", id, db, key, "0", 0, JNull))

\* client.Del(c, key)
DeleteKeyDel(g) ==
    /\ req[g].pc = "delete"
    /\ \E ok \in BOOLEAN :
        LET r == Sent(req[g], "DEL", ok)
        IN  IF ok
            THEN /\ store' = RedisDel(selected, r.key)
                 /\ req' = [req EXCEPT ![g] = Reply(r, 200, JNull)]
            ELSE /\ req' = [req EXCEPT ![g] = Reply(r, 500, ErrBody("del failed"))]
                 /\ UNCHANGED store
    /\ UNCHANGED <<connections, clients, selected, served, ui, call, trip, tree>>

----------------------------------------------------------------------------
(* getKey *)

\* isBinary: some byte below 32 or above 126
isBinary(b) == \E i \in DOMAIN b : b[i] < 32 \/ b[i] > 126

IsDigit(c) == c >= 48 /\ c <= 57

\* encoding/json skips white space around the value
Space == {32, 9, 10, 13}

RECURSIVE TrimLeft(_)
TrimLeft(b) == IF b # <<>> /\ b[1] \in Space THEN TrimLeft(Tail(b)) ELSE b

RECURSIVE TrimRight(_)
TrimRight(b) ==
    IF b # <<>> /\ b[Len(b)] \in Space
    THEN TrimRight(SubSeq(b, 1, Len(b) - 1)) ELSE b

Trim(b) == TrimRight(TrimLeft(b))

\* a JSON number without fraction and exponent
IsNumber(b) ==
    LET d == IF b # <<>> /\ b[1] = 45 THEN Tail(b) ELSE b
    IN  /\ d # <<>>
        /\ \A i \in DOMAIN d : IsDigit(d[i])
        /\ (Len(d) > 1 => d[1] # 48)

\* a JSON string without escapes: the scanner takes every byte from 32 on
\* but the quote and the backslash, bytes above 127 included
IsString(b) ==
    /\ Len(b) >= 2 /\ b[1] = 34 /\ b[Len(b)] = 34
    /\ \A i \in 2..(Len(b) - 1) : b[i] >= 32 /\ b[i] \notin {34, 92}

Inner(b) == SubSeq(b, 2, Len(b) - 1)

Binary == <<98, 105, 110, 97, 114, 121>>

\* {"data":"  and  ","type":"binary"} : the JSON text of the binary wrapper
BlobHead == <<123, 34, 100, 97, 116, 97, 34, 58, 34>>
BlobTail ==
    <<34, 44, 34, 116, 121, 112, 101, 34, 58, 34>> \o Binary \o <<34, 125>>

BlobData(b) == SubSeq(b, Len(BlobHead) + 1, Len(b) - Len(BlobTail))

IsBlobText(b) ==
    /\ Len(b) >= Len(BlobHead) + Len(BlobTail)
    /\ SubSeq(b, 1, Len(BlobHead)) = BlobHead
    /\ SubSeq(b, Len(b) - Len(BlobTail) + 1, Len(b)) = BlobTail
    /\ IsString(<<34>> \o BlobData(b) \o <<34>>)

\* json.Unmarshal succeeds.  The byte strings of this model's stores are made
\* of x, 4, line feed, 0xFF and the quote, of what setKey writes of their
\* decoded forms (digits, base64 text, U+FFFD, the words type, data and
\* binary, the JSON of the binary wrapper); among these the JSON texts are
\* the whole numbers, the strings without escapes and the wrapper's JSON
IsJSON(b) == IsNumber(Trim(b)) \/ IsString(Trim(b)) \/ IsBlobText(Trim(b))

RECURSIVE Number(_)
Number(d) == IF d = <<>> THEN 0 ELSE 10 * Number(SubSeq(d, 1, Len(d) - 1)) + (d[Len(d)] - 48)

\* U+FFFD, which encoding/json puts in the place of invalid UTF-8
Replacement == <<239, 191, 189>>

RECURSIVE ToValidUTF8(_)
ToValidUTF8(b) ==
    IF b = <<>> THEN <<>>
    ELSE IF b[1] < 128 THEN <<b[1]>> \o ToValidUTF8(Tail(b))
    ELSE IF Len(b) >= 3 /\ SubSeq(b, 1, 3) = Replacement
         THEN Replacement \o ToValidUTF8(SubSeq(b, 4, Len(b)))
    ELSE Replacement \o ToValidUTF8(Tail(b))

ParseNumber(b) == IF b[1] = 45 THEN JNum(-Number(Tail(b))) ELSE JNum(Number(b))

ParseJSON(b) ==
    LET t == Trim(b)
    IN  IF IsNumber(t) THEN ParseNumber(t)
        ELSE IF IsString(t) THEN JStr(ToValidUTF8(Inner(t)))
        ELSE JObj([type |-> JStr(Binary), data |-> JStr(BlobData(t))])

\* base64.StdEncoding
B64(n) ==
    IF n < 26 THEN 65 + n ELSE IF n < 52 THEN 71 + n
    ELSE IF n < 62 THEN n - 4 ELSE IF n = 62 THEN 43 ELSE 47

RECURSIVE Base64(_)
Base64(b) ==
    IF b = <<>> THEN <<>>
    ELSE IF Len(b) = 1
         THEN <<B64(b[1] \div 4), B64((b[1] % 4) * 16), 61, 61>>
    ELSE IF Len(b) = 2
         THEN <<B64(b[1] \div 4), B64((b[1] % 4) * 16 + b[2] \div 16),
                B64((b[2] % 16) * 4), 61>>
    ELSE <<B64(b[1] \div 4), B64((b[1] % 4) * 16 + b[2] \div 16),
           B64((b[2] % 16) * 4 + b[3] \div 64), B64(b[3] % 64)>>
         \o Base64(SubSeq(b, 4, Len(b)))

Blob(b) == JObj([type |-> JStr(Binary), data |-> JStr(Base64(b))])

\* the binary check ahead of the JSON parse
DecodeScalarBinaryFirst(b) ==
    IF isBinary(b) THEN Blob(b)
    ELSE IF IsJSON(b) THEN ParseJSON(b)
    ELSE JStr(b)

\* parsed JSON first, then the binary wrapper, then the plain string
DecodeScalar(b) ==
    IF IsJSON(b) THEN ParseJSON(b)
    ELSE IF isBinary(b) THEN Blob(b)
    ELSE JStr(b)

\* ZRANGE key 0 -1 WITHSCORES: ascending score, ties by member
ZOrder(z) ==
    CHOOSE p \in Perms(DOMAIN z) :
        \A i, k \in DOMAIN p :
            i < k => \/ z[p[i]] < z[p[k]]
                     \/ z[p[i]] = z[p[k]] /\ LessBytes(p[i], p[k])

\* the "value" of the reply, from what the read command returned
DecodeList(l) == JArr([i \in DOMAIN l |-> DecodeScalar(l[i])])
DecodeHash(h) == JObj([f \in DOMAIN h |-> DecodeScalar(h[f])])
DecodeZSet(z, p) ==
    JArr([i \in DOMAIN p |->
            JObj([score |-> JNum(z[p[i]]), member |-> DecodeScalar(p[i])])])

GetKeyStart(g) ==
    \E id \in ConnIds, db \in DBs, key \in Keys :
        Accept(g, NewReq("getKey", id, db, key, "0", 0, JNull))

\* keyType, err := client.Type(c, key).Result(), then the switch on it
GetKeyType(g) ==
    /\ req[g].pc = "type" /\ req[g].op = "getKey"
    /\ \E ok \in BOOLEAN :
        LET r == Sent(req[g], "TYPE", ok)
            keyType == RedisType(selected, r.key)
        IN  req' = [req EXCEPT
                      ![g] = IF ~ok THEN Reply(r, 500, ErrBody("type failed"))
                             ELSE IF keyType \notin Types
                                  THEN Reply(r, 400, ErrBody("Unsupported key type"))
                             ELSE [r EXCEPT !.pc = "read", !.data = keyType]]
    /\ UNCHANGED <<connections, clients, selected, store, served, ui, call, trip, tree>>

ReadCmd(t) ==
    CASE t = "string" -> "GET" [] t = "list" -> "LRANGE" [] t = "set" -> "SMEMBERS"
      [] t = "hash" -> "HGETALL" [] OTHER -> "ZRANGE"

\* the replies the read command of type t can give for the entry e: GET of a
\* missing key is an error, the other reads see an empty collection
Reads(t, e) ==
    IF e.type = "none"
    THEN CASE t = "string" -> {}
           [] t = "hash" -> {JObj(<<>>)}
           [] OTHER -> {JArr(<<>>)}
    ELSE IF e.type # t THEN {}
    ELSE CASE t = "string" -> {DecodeScalar(e.val)}
           [] t = "list" -> {DecodeList(e.val)}
           [] t = "set" -> {DecodeList(p) : p \in Perms(e.val)}
           [] t = "hash" -> {DecodeHash(e.val)}
           [] OTHER -> {DecodeZSet(e.val, ZOrder(e.val))}

\* Get / LRange / SMembers / HGetAll / ZRangeWithScores and the reply
GetKeyRead(g) ==
    /\ req[g].pc = "read"
    /\ LET t == req[g].data
           values == Reads(t, store[selected][req[g].key])
       IN  \/ \E value \in values :
                req' = [req EXCEPT
                          ![g] = Reply(Sent(req[g], ReadCmd(t), TRUE), 200,
                                       JObj([type |-> t, value |-> value]))]
           \/ req' = [req EXCEPT
                        ![g] = Reply(Sent(req[g], ReadCmd(t), FALSE), 500,
                                     ErrBody("read failed"))]
    /\ UNCHANGED <<connections, clients, selected, store, served, ui, call, trip, tree>>

----------------------------------------------------------------------------
(* executeCommand *)

ExecuteCommandStart(g) ==
    \E id \in ConnIds, db \in DBs :
        Accept(g, NewReq("executeCommand", id, db, "", "0", 0, JNull))

\* the same with the slice one short: the last argument is left out
ArgvShort(data) ==
    IF data.Args = <<>> THEN <<data.Command>>
    ELSE <<data.Command>> \o SubSeq(data.Args, 1, Len(data.Args) - 1)

\* args[0] = data.Command, args[i+1] = data.Args[i]
Argv(data) == <<data.Command>> \o data.Args

OK == JStr(<<79, 75>>)

\* the server's answer to a command vector on database d
RedisDo(d, argv) ==
    CASE argv[1] = "DEL" /\ Len(argv) = 2 ->
            [ok |-> TRUE, store |-> RedisDel(d, argv[2]),
             result |-> JNum(IF Exists(d, argv[2]) THEN 1 ELSE 0)]
      [] argv[1] = "SET" /\ Len(argv) = 3 ->
            [ok |-> TRUE, store |-> RedisSet(d, argv[2], argv[3], 0), result |-> OK]
      [] argv[1] = "FLUSHDB" /\ Len(argv) = 1 ->
            [ok |-> TRUE, store |-> RedisFlushDB(d), result |-> OK]
      [] OTHER ->
            [ok |-> FALSE, store |-> store, result |-> ErrBody("ERR unknown command")]

\* result, err := client.Do(c, args...).Result()
ExecuteCommandDo(g) ==
    /\ req[g].pc = "do"
    /\ \E ok \in BOOLEAN :
        LET argv == Argv(req[g].data)
            out == RedisDo(selected, argv)
            r == [Sent(req[g], req[g].data.Command, ok /\ out.ok) EXCEPT
                    !.argv = argv,
                    !.reply = IF ok THEN [ok |-> out.ok, result |-> out.result]
                              ELSE JNull]
        IN  IF ok
            THEN /\ store' = out.store
                 /\ req' = [req EXCEPT
                              ![g] = IF out.ok
                                     THEN Reply(r, 200, JObj([result |-> out.result]))
                                     ELSE Reply(r, 500, out.result)]
            ELSE /\ req' = [req EXCEPT ![g] = Reply(r, 500, ErrBody("do failed"))]
                 /\ UNCHANGED store
    /\ UNCHANGED <<connections, clients, selected, served, ui, call, trip, tree>>

----------------------------------------------------------------------------
(* listConnections *)

ListConnectionsStart(g) ==
    Accept(g, NewReq("listConnections", "", 0, "", "0", 0, JNull))

----------------------------------------------------------------------------
(* The DatabaseViewer page (the consumer of the API) *)

NoCall == [fn |-> "none", loadMore |-> FALSE]
Undefined == "undefined"

\* the key panel is closed
NoPanel == [phase |-> "closed"]

InitUI ==
    [mounted |-> FALSE, connections |-> <<>>, selectedConnection |-> "",
     selectedDatabase |-> 0, keys |-> <<>>, cursor |-> "0",
     isLoadingKeys |-> FALSE, message |-> "", panel |-> NoPanel]

\* an api call of the page: the request leaves and the continuation waits
Calls(g, r, c) ==
    /\ served < MaxCalls
    /\ served' = served + 1
    /\ Arrive(g, r)
    /\ call' = [call EXCEPT ![g] = c]
    /\ UNCHANGED <<trip, tree>>

\* the response is consumed by the continuation of the call
Consumed(g) ==
    /\ req' = [req EXCEPT ![g] = Idle]
    /\ call' = [call EXCEPT ![g] = NoCall]
    /\ UNCHANGED <<connections, clients, selected, store, served, trip, tree>>

\* useEffect(() => { loadConnections() }, [])
LoadConnections(g) ==
    /\ ~ui.mounted
    /\ ui' = [ui EXCEPT !.mounted = TRUE]
    /\ Calls(g, NewReq("listConnections", "", 0, "", "0", 0, JNull),
             [NoCall EXCEPT !.fn = "loadConnections"])

\* const data = await listConnections(); setConnections(data)
LoadConnectionsDone(g) ==
    /\ call[g].fn = "loadConnections" /\ req[g].pc = "done"
    /\ ui' = IF req[g].status = 200
             THEN [ui EXCEPT !.connections = req[g].body.v]
             ELSE [ui EXCEPT !.message = "Failed to load connections"]
    /\ Consumed(g)

\* the same with the cursor of the state in every call
loadKeysFromCursor(g, u, loadMore) ==
    /\ ui' = [u EXCEPT !.isLoadingKeys = TRUE]
    /\ Calls(g, NewReq("listKeys", u.selectedConnection, u.selectedDatabase, "",
                       u.cursor, 1000, JNull),
             [fn |-> "loadKeys", loadMore |-> loadMore])

\* listKeys(selectedConnection, selectedDatabase, loadMore ? cursor : '0', 1000)
loadKeys(g, u, loadMore) ==
    /\ ui' = [u EXCEPT !.isLoadingKeys = TRUE]
    /\ Calls(g, NewReq("listKeys", u.selectedConnection, u.selectedDatabase, "",
                       IF loadMore THEN u.cursor ELSE "0", 1000, JNull),
             [fn |-> "loadKeys", loadMore |-> loadMore])

\* the connection Select: setSelectedConnection, then the effects
\* setSelectedDatabase(0) and loadKeys()
SelectConnection(g) ==
    \E id \in {ui.connections[i] : i \in DOMAIN ui.connections} :
        /\ id # ui.selectedConnection
        /\ loadKeys(g, [ui EXCEPT !.selectedConnection = id,
                                  !.selectedDatabase = 0], FALSE)

\* the database Select: setSelectedDatabase, then the effect loadKeys()
SelectDatabase(g) ==
    \E db \in DBs :
        /\ ui.selectedConnection # ""
        /\ db # ui.selectedDatabase
        /\ loadKeys(g, [ui EXCEPT !.selectedDatabase = db], FALSE)

\* the Scan More button, loading={isLoadingKeys}
\* disabled={!cursor || cursor === '0'}; a loading button takes no click
ScanMore(g) ==
    /\ ui.cursor \notin {Undefined, "", "0"}
    /\ ~ui.isLoadingKeys
    /\ ui.selectedConnection # ""
    /\ loadKeys(g, ui, TRUE)

\* the catch block of loadKeys; the entries of connections are the id
\* strings listConnections sent, so conn.id is undefined for each of them
loadKeysCatch(u, r, c, status) ==
    LET v == IF status = 500
             THEN [u EXCEPT
                     !.message = "Connection error",
                     !.connections =
                         SelectSeq(@, LAMBDA conn : Undefined # r.id),
                     !.selectedConnection = ""]
             ELSE [u EXCEPT !.message = "Failed to load keys"]
    IN  IF c.loadMore THEN v ELSE [v EXCEPT !.keys = <<>>]

\* newKeys = data.keys.map(key => ({key, ttl, type}))
newKeys(items) ==
    [i \in DOMAIN items |->
        [key |-> items[i].key, ttl |-> items[i].ttl, type |-> items[i].type]]

\* the try block of loadKeys after the await.  On an array, data.keys is
\* the method Array.prototype.keys: it is truthy, and data.keys.slice is
\* not a function, which throws into the catch block with no error.response
loadKeysTry(u, r, c) ==
    LET data == r.body
    IN  IF IsArr(data) THEN loadKeysCatch(u, r, c, 0)
        ELSE IF ~(IsObj(data) /\ Has(data, "keys"))
             THEN [u EXCEPT !.message = "Invalid response format from server"]
        ELSE [u EXCEPT
                !.keys = IF c.loadMore THEN @ \o newKeys(data.v.keys.v)
                         ELSE newKeys(data.v.keys.v),
                !.cursor = IF Has(data, "nextCursor") THEN data.v.nextCursor
                           ELSE Undefined]

\* loadKeys from the await on: try, catch, finally
LoadKeysDone(g) ==
    /\ call[g].fn = "loadKeys" /\ req[g].pc = "done"
    /\ LET r == req[g]
           u == IF r.status = 200 THEN loadKeysTry(ui, r, call[g])
                ELSE loadKeysCatch(ui, r, call[g], r.status)
       IN  ui' = [u EXCEPT !.isLoadingKeys = FALSE]
    /\ Consumed(g)

----------------------------------------------------------------------------
(* The server *)

\* the response is on the wire and the goroutine ends
Return(g) ==
    /\ req[g].pc = "done"
    /\ call[g] = NoCall
    /\ req' = [req EXCEPT ![g] = Idle]
    /\ UNCHANGED <<connections, clients, selected, store, served, ui, call, trip, tree>>

EmptyDB == [k \in Keys |-> None]

\* no client of this kind, no batch
NoTrip == [phase |-> "off"]
NoTree == [phase |-> "off"]

Init ==
    /\ connections = {"c1"}
    /\ clients = InitClients
    /\ selected = 0
    /\ store = [d \in DBs |->
                  IF d = 0
                  THEN [EmptyDB EXCEPT !["a"] = ListEntry(<<Y, X, Y>>, 1),
                                       !["b"] = StrEntry(X, NoExpiry)]
                  ELSE [EmptyDB EXCEPT !["a"] = HashEntry([g |-> Y], NoExpiry)]]
    /\ req = [g \in Reqs |-> Idle]
    /\ served = 0
    /\ ui = InitUI
    /\ call = [g \in Reqs |-> NoCall]
    /\ trip = NoTrip
    /\ tree = NoTree

Step(g) ==
    \/ Select(g)
    \/ ListKeysKeys(g) \/ ListKeysTTL(g) \/ ListKeysType(g)
    \/ GetKeyType(g) \/ GetKeyRead(g)
    \/ SetKeySet(g) \/ SetKeyDel(g) \/ SetKeyPush(g) \/ SetKeyExpire(g)
    \/ DeleteKeyDel(g)
    \/ ExecuteCommandDo(g)
    \/ Return(g)

Start(g) ==
    \/ ListConnectionsStart(g)
    \/ ListKeysStart(g) \/ GetKeyStart(g) \/ SetKeyStart(g)
    \/ DeleteKeyStart(g) \/ ExecuteCommandStart(g)

\* gin runs every request in a goroutine of its own
Next == \E g \in Reqs : Start(g) \/ Step(g)

Spec == Init /\ [][Next]_vars

\* one request at a time: a request is accepted when no other is in flight
Quiet == \A g \in Reqs : req[g].pc = "idle"

NextSeq == \E g \in Reqs : (Quiet /\ Start(g)) \/ Step(g)

SpecSeq == Init /\ [][NextSeq]_vars

\* the page as the only client of the server.  ScanMore is left out: the
\* button stays disabled, since no reply of listKeys moves ui.cursor off "0"
Page(g) ==
    \/ LoadConnections(g) \/ LoadConnectionsDone(g)
    \/ SelectConnection(g) \/ SelectDatabase(g)
    \/ LoadKeysDone(g)

\* the handlers the page's calls run
Serve(g) ==
    \/ Select(g)
    \/ ListKeysKeys(g) \/ ListKeysTTL(g) \/ ListKeysType(g)

NextUI == \E g \in Reqs : Page(g) \/ Serve(g)

SpecUI == Init /\ [][NextUI]_vars

----------------------------------------------------------------------------
(* A client that reads a key with getKey, writes what it read back with     *)
(* setKey under the same type, and reads the key again; or that starts with *)
(* the write of a string of its own                                         *)

\* the bytes of the stored scalars: x, 4, line feed, 0xFF, the quote
Alphabet == {120, 52, 10, 255, 34}

Strings(n) == UNION {[1..m -> Alphabet] : m \in 1..n}
Scalars == Strings(MaxLen)
Elems == Strings(MaxLen - 1)
Bytes == Strings(1)

\* the value a key holds before the client starts
Entries ==
    {StrEntry(b, NoExpiry) : b \in Scalars}
    \cup {ListEntry(<<b>>, NoExpiry) : b \in Elems}
    \cup {ListEntry(<<b, c>>, NoExpiry) : b \in Bytes, c \in Bytes}
    \cup {SetEntry({b}, NoExpiry) : b \in Elems}
    \cup {SetEntry({b, c}, NoExpiry) : b \in Bytes, c \in Bytes}
    \cup {HashEntry(Single("f", b), NoExpiry) : b \in Elems}
    \cup {HashEntry([f \in Fields |-> IF f = "f" THEN b ELSE c], NoExpiry) :
             b \in Bytes, c \in Bytes}
    \cup {ZSetEntry(Single(b, 1), NoExpiry) : b \in Elems}
    \cup {ZSetEntry(Assign(Single(b, 1), c, 2), NoExpiry) : b \in Bytes, c \in Bytes}

\* a string reaches setKey as the JSON of the body: it is valid UTF-8
Sendable == {b \in Scalars : ToValidUTF8(b) = b}

IsBlob(v) == IsObj(v) /\ DOMAIN v.v = {"type", "data"} /\ v.v.type = JStr(Binary)

\* what the client sends for one decoded scalar: the scalar as it came, or
\* the data field in the place of a binary wrapper
Back(v, how) == IF how = "data" /\ IsBlob(v) THEN v.v.data ELSE v

\* the "value" of the setKey body made from the "value" getKey returned
Resubmit(t, value, how) ==
    CASE t = "string" -> Back(value, how)
      [] t \in {"list", "set"} ->
            JArr([i \in DOMAIN value.v |-> Back(value.v[i], how)])
      [] t = "hash" -> JObj([f \in DOMAIN value.v |-> Back(value.v[f], how)])
      [] OTHER ->
            JArr([i \in DOMAIN value.v |->
                    JObj([score |-> value.v[i].v.score,
                          member |-> Back(value.v[i].v.member, how)])])

SetBody(t, value) == [bound |-> TRUE, Type |-> t, Value |-> value, TTL |-> 0]

\* the client before its first request: about to read the entry orig, or
\* about to write the string orig holds
Trip(phase, how, orig) ==
    [phase |-> phase, start |-> phase, how |-> how, orig |-> orig,
     body |-> IF phase = "write" THEN SetBody("string", JStr(orig.val)) ELSE JNull,
     first |-> JNull, second |-> JNull, written |-> FALSE]

TripRead(g) ==
    /\ trip.phase \in {"read", "reread"}
    /\ Arrive(g, NewReq("getKey", "c1", 0, "a", "0", 0, JNull))
    /\ trip' = [trip EXCEPT !.phase = IF @ = "read" THEN "reading" ELSE "rereading"]
    /\ UNCHANGED <<served, ui, call, tree>>

TripWrite(g) ==
    /\ trip.phase = "write"
    /\ Arrive(g, NewReq("setKey", "c1", 0, "a", "0", 0, trip.body))
    /\ trip' = [trip EXCEPT !.phase = "writing"]
    /\ UNCHANGED <<served, ui, call, tree>>

\* the client takes the response of its request
TripTakes(t, r) ==
    IF r.status # 200 THEN [t EXCEPT !.phase = "failed"]
    ELSE CASE t.phase = "reading" ->
                [t EXCEPT !.phase = "write", !.first = r.body,
                          !.body = SetBody(r.body.v.type,
                                           Resubmit(r.body.v.type, r.body.v.value, t.how))]
           [] t.phase = "writing" -> [t EXCEPT !.phase = "reread", !.written = TRUE]
           [] OTHER -> [t EXCEPT !.phase = "end", !.second = r.body]

TripDone(g) ==
    /\ trip.phase \in {"reading", "writing", "rereading"}
    /\ req[g].pc = "done"
    /\ trip' = TripTakes(trip, req[g])
    /\ req' = [req EXCEPT ![g] = Idle]
    /\ UNCHANGED <<connections, clients, selected, store, served, ui, call, tree>>

InitTrip ==
    /\ connections = {"c1"}
    /\ clients = InitClients
    /\ selected = 0
    /\ req = [g \in Reqs |-> Idle]
    /\ served = 0
    /\ ui = InitUI
    /\ call = [g \in Reqs |-> NoCall]
    /\ tree = NoTree
    /\ \/ \E e \in Entries, how \in {"same", "data"} :
            /\ store = [d \in DBs |-> IF d = 0 THEN [EmptyDB EXCEPT !["a"] = e]
                                      ELSE EmptyDB]
            /\ trip = Trip("read", how, e)
       \/ \E b \in Sendable :
            /\ store = [d \in DBs |-> EmptyDB]
            /\ trip = Trip("write", "same", StrEntry(b, NoExpiry))

\* the handlers the client's requests run
ServeTrip(g) ==
    \/ Select(g)
    \/ GetKeyType(g) \/ GetKeyRead(g)
    \/ SetKeySet(g) \/ SetKeyDel(g) \/ SetKeyPush(g)

NextTrip == \E g \in Reqs : TripRead(g) \/ TripWrite(g) \/ TripDone(g) \/ ServeTrip(g)

SpecTrip == InitTrip /\ [][NextTrip]_vars

----------------------------------------------------------------------------
(* The key tree of the page: buildTree (virtualized list variant) and       *)
(* buildKeyTree (Tree component variant)                                    *)

Colon == ":"
NameChars == {"a", "b", Colon}

\* key names, as the sequences of their characters
KeyNames == UNION {[1..n -> NameChars] : n \in 0..MaxName}

\* type and ttl of the descriptor at position i of a batch
TypeAt(i) == IF i % 2 = 1 THEN "string" ELSE "hash"
TTLAt(i) == IF i % 2 = 1 THEN 60 ELSE -1

\* the batches of KeyInfo handed to the builders
Batches ==
    {[i \in DOMAIN names |-> [key |-> names[i], type |-> TypeAt(i), ttl |-> TTLAt(i)]] :
        names \in UNION {[1..n -> KeyNames] : n \in 0..MaxBatch}}

\* String.prototype.split(':')
RECURSIVE split(_)
split(s) ==
    IF \A i \in DOMAIN s : s[i] # Colon THEN <<s>>
    ELSE LET i == CHOOSE i \in DOMAIN s :
                      s[i] = Colon /\ \A k \in 1..(i - 1) : s[k] # Colon
         IN  <<SubSeq(s, 1, i - 1)>> \o split(SubSeq(s, i + 1, Len(s)))

\* Array.prototype.join(':')
RECURSIVE join(_)
join(parts) ==
    IF parts = <<>> THEN <<>>
    ELSE IF Len(parts) = 1 THEN parts[1]
    ELSE parts[1] \o <<Colon>> \o join(Tail(parts))

\* nodeMap.has(path); the map keeps its entries in the order they were set
HasNode(nodeMap, path) == \E i \in DOMAIN nodeMap : nodeMap[i].key = path

\* the node buildTree sets for a path it has not seen; fullKey is <<name>>,
\* or <<>> for undefined
NewNode(key, part, currentPath, isLast) ==
    [title |-> part, key |-> currentPath, isLeaf |-> isLast,
     type |-> IF isLast THEN key.type ELSE "folder",
     ttl |-> IF isLast THEN key.ttl ELSE -1,
     fullKey |-> IF isLast THEN <<key.key>> ELSE <<>>]

\* parts.forEach of the first pass: currentPath grows by one part per turn,
\* and starts over from the part when it is the empty string
RECURSIVE AddParts(_, _, _, _, _)
AddParts(nodeMap, key, parts, index, currentPath) ==
    IF index > Len(parts) THEN nodeMap
    ELSE LET part == parts[index]
             path == IF currentPath # <<>> THEN currentPath \o <<Colon>> \o part
                     ELSE part
             isLast == index = Len(parts)
         IN  AddParts(IF HasNode(nodeMap, path) THEN nodeMap
                      ELSE Append(nodeMap, NewNode(key, part, path, isLast)),
                      key, parts, index + 1, path)

\* keys.forEach of the first pass; a descriptor with an empty name is skipped
RECURSIVE FirstPass(_, _)
FirstPass(nodeMap, keys) ==
    IF keys = <<>> THEN nodeMap
    ELSE FirstPass(IF Head(keys).key = <<>> THEN nodeMap
                   ELSE AddParts(nodeMap, Head(keys), split(Head(keys).key), 1, <<>>),
                   Tail(keys))

\* parts.slice(0, -1).join(':')
parentPath(path) == join(SubSeq(split(path), 1, Len(split(path)) - 1))

Indices(nodeMap) == [i \in DOMAIN nodeMap |-> i]

\* second pass: the nodes of a one-part path, in the order of the map
rootNodes(nodeMap) ==
    SelectSeq(Indices(nodeMap), LAMBDA i : Len(split(nodeMap[i].key)) = 1)

\* second pass: the nodes pushed to the children of node n
children(nodeMap, n) ==
    SelectSeq(Indices(nodeMap),
              LAMBDA i : /\ Len(split(nodeMap[i].key)) > 1
                         /\ parentPath(nodeMap[i].key) = nodeMap[n].key)

RECURSIVE countKeys(_, _)
RECURSIVE SumKeys(_, _)
\* countKeys of updateTitles
countKeys(nodeMap, n) ==
    IF nodeMap[n].isLeaf THEN 1 ELSE SumKeys(nodeMap, children(nodeMap, n))
SumKeys(nodeMap, ns) ==
    IF ns = <<>> THEN 0 ELSE countKeys(nodeMap, Head(ns)) + SumKeys(nodeMap, Tail(ns))

\* the tree buildTree returns: its nodes in the order of the map, each with
\* its children, its count and its title, and the root nodes
buildTree(keys) ==
    LET nodeMap == FirstPass(<<>>, keys)
    IN  [nodes |->
            [n \in DOMAIN nodeMap |->
                [key |-> nodeMap[n].key, isLeaf |-> nodeMap[n].isLeaf,
                 type |-> nodeMap[n].type, ttl |-> nodeMap[n].ttl,
                 fullKey |-> nodeMap[n].fullKey,
                 children |-> children(nodeMap, n),
                 count |-> Len(children(nodeMap, n)),
                 title |-> IF nodeMap[n].isLeaf
                           THEN [text |-> nodeMap[n].fullKey, type |-> nodeMap[n].type]
                           ELSE [text |-> nodeMap[n].title,
                                 keys |-> countKeys(nodeMap, n)]]],
         rootNodes |-> rootNodes(nodeMap)]

\* parts.forEach of buildKeyTree: current[part] is set when it is missing
RECURSIVE AddKeyParts(_, _, _, _)
AddKeyParts(nodes, key, parts, index) ==
    IF index > Len(parts) THEN nodes
    ELSE LET path == join(SubSeq(parts, 1, index))
             isLast == index = Len(parts)
         IN  AddKeyParts(IF HasNode(nodes, path) THEN nodes
                         ELSE Append(nodes,
                                     [key |-> path, title |-> parts[index],
                                      type |-> IF isLast THEN key.type ELSE "folder",
                                      ttl |-> IF isLast THEN key.ttl ELSE -1]),
                         key, parts, index + 1)

RECURSIVE KeyTree(_, _)
KeyTree(nodes, keys) ==
    IF keys = <<>> THEN nodes
    ELSE KeyTree(AddKeyParts(nodes, Head(keys), split(Head(keys).key), 1), Tail(keys))

\* the tree buildKeyTree returns, convertToArray included
buildKeyTree(keys) ==
    LET nodes == KeyTree(<<>>, keys)
    IN  [nodes |->
            [n \in DOMAIN nodes |->
                [key |-> nodes[n].key, title |-> nodes[n].title,
                 type |-> nodes[n].type, ttl |-> nodes[n].ttl,
                 isLeaf |-> nodes[n].type # "folder",
                 children |-> children(nodes, n)]],
         rootNodes |-> rootNodes(nodes)]

\* a batch waits for its tree
Batch0(keys) == [phase |-> "keys", keys |-> keys, by |-> "", nodes |-> <<>>, rootNodes |-> <<>>]

Built(by, keys, t) ==
    [phase |-> "built", keys |-> keys, by |-> by, nodes |-> t.nodes,
     rootNodes |-> t.rootNodes]

\* const result = buildTree(filteredKeys)
BuildTree ==
    /\ tree.phase = "keys"
    /\ tree' = Built("buildTree", tree.keys, buildTree(tree.keys))
    /\ UNCHANGED <<connections, clients, selected, store, req, served, ui, call, trip>>

\* useMemo(() => buildKeyTree(keys), [keys])
BuildKeyTree ==
    /\ tree.phase = "keys"
    /\ tree' = Built("buildKeyTree", tree.keys, buildKeyTree(tree.keys))
    /\ UNCHANGED <<connections, clients, selected, store, req, served, ui, call, trip>>

InitTree ==
    /\ connections = {"c1"}
    /\ clients = InitClients
    /\ selected = 0
    /\ store = [d \in DBs |-> EmptyDB]
    /\ req = [g \in Reqs |-> Idle]
    /\ served = 0
    /\ ui = InitUI
    /\ call = [g \in Reqs |-> NoCall]
    /\ trip = NoTrip
    /\ \E keys \in Batches : tree = Batch0(keys)

NextTree == BuildTree \/ BuildKeyTree

SpecTree == InitTree /\ [][NextTree]_vars

----------------------------------------------------------------------------
(* The TTL line of the key panel: formatTTL and TTLCountdown.  A ttl is the *)
(* number the descriptor carries, kept as whole seconds and nanoseconds     *)

Whole(n) == [sec |-> n, nsec |-> 0]

\* the ttl of the descriptors shown: whole numbers from -3 on, an hour, a
\* day, a day with an hour, a minute and a second, and the fractions of
\* -1 and -2 nanoseconds
Shown ==
    {Whole(n) : n \in (-3..MaxSeconds) \cup {3600, 86400, 90061}}
        \cup {[sec |-> 0, nsec |-> -1], [sec |-> 0, nsec |-> -2]}

\* ttl > 0 and ttl < 0
Positive(ttl) == ttl.sec > 0 \/ (ttl.sec = 0 /\ ttl.nsec > 0)
Negative(ttl) == ttl.sec < 0 \/ (ttl.sec = 0 /\ ttl.nsec < 0)

Text(t) == [kind |-> "text", v |-> t]

\* parts.push(`${n}${unit}`) for the amounts above zero, in the order d h m s
Parts(amounts) ==
    SelectSeq(amounts, LAMBDA part : part.n > 0)

\* the same with the sentinel read as a number of seconds
formatTTLAbs(ttl) ==
    IF ttl = Whole(-1) THEN Text("No expiry")
    ELSE [kind |-> "duration",
          parts |-> <<[n |-> IF ttl.sec < 0 THEN -ttl.sec ELSE ttl.sec, unit |-> "s"]>>]

\* const formatTTL = (ttl: number) => ...
formatTTL(ttl) ==
    IF ttl = Whole(-1) THEN Text("No expiry")
    ELSE IF ttl = Whole(-2) THEN Text("Error")
    ELSE IF Negative(ttl) THEN Text("Persistent")
    ELSE LET parts == Parts(<<[n |-> ttl.sec \div 86400, unit |-> "d"],
                              [n |-> (ttl.sec % 86400) \div 3600, unit |-> "h"],
                              [n |-> (ttl.sec % 3600) \div 60, unit |-> "m"],
                              [n |-> ttl.sec % 60, unit |-> "s"]>>)
         IN  [kind |-> "duration",
              parts |-> IF parts = <<>> THEN <<[n |-> 0, unit |-> "s"]>> ELSE parts]

\* the panel of the descriptor: the ttl of TTLCountdown, its running timer,
\* the ticks so far and the text of the line
Panel(info, ttl, timer, ticks, text) ==
    [phase |-> "open", info |-> info, ttl |-> ttl, timer |-> timer,
     ticks |-> ticks, text |-> text]

\* TTL: {selectedKeyInfo.ttl > 0 ? <TTLCountdown initialTTL=.. /> : formatTTL(..)}
\* and the effect of TTLCountdown, which sets the interval unless ttl <= 0
OpenPanel ==
    /\ ui.panel.phase = "selected"
    /\ LET ttl == ui.panel.info.ttl
       IN  ui' = [ui EXCEPT !.panel =
                     IF Positive(ttl) THEN Panel(@.info, ttl, TRUE, 0, formatTTL(ttl))
                     ELSE Panel(@.info, ttl, FALSE, 0, formatTTL(ttl))]
    /\ UNCHANGED <<connections, clients, selected, store, req, served, call, trip, tree>>

\* the interval of TTLCountdown: setTTL(prev => prev - 1), and at zero or
\* below clearInterval and 0
Tick ==
    /\ ui.panel.phase = "open" /\ ui.panel.timer
    /\ ui.panel.ticks < MaxTicks
    /\ LET newTTL == [ui.panel.ttl EXCEPT !.sec = @ - 1]
           over == ~Positive(newTTL)
           ttl == IF over THEN Whole(0) ELSE newTTL
       IN  ui' = [ui EXCEPT !.panel =
                     Panel(@.info, ttl, ~over, @.ticks + 1, formatTTL(ttl))]
    /\ UNCHANGED <<connections, clients, selected, store, req, served, call, trip, tree>>

InitPanel ==
    /\ connections = {"c1"}
    /\ clients = InitClients
    /\ selected = 0
    /\ store = [d \in DBs |-> EmptyDB]
    /\ req = [g \in Reqs |-> Idle]
    /\ served = 0
    /\ call = [g \in Reqs |-> NoCall]
    /\ trip = NoTrip
    /\ tree = NoTree
    /\ \E ttl \in Shown :
          ui = [InitUI EXCEPT !.panel =
                   [phase |-> "selected",
                    info |-> [key |-> "a", ttl |-> ttl, type |-> "string"]]]

NextPanel == OpenPanel \/ Tick

SpecPanel == InitPanel /\ [][NextPanel]_vars

----------------------------------------------------------------------------
(* The page changes keys: handleDeleteKey, handleSaveKey and                *)
(* handleExecuteCommand, each with what it does to the cached key list      *)

\* await deleteKey(selectedConnection, selectedDatabase, key)
handleDeleteKey(g) ==
    \E i \in DOMAIN ui.keys :
        /\ UNCHANGED ui
        /\ Calls(g, NewReq("deleteKey", ui.selectedConnection, ui.selectedDatabase,
                           ui.keys[i].key, "0", 0, JNull),
                 [NoCall EXCEPT !.fn = "handleDeleteKey"])

\* setKeys(prevKeys => prevKeys.filter(k => k.key !== key)), or the catch
handleDeleteKeyDone(g) ==
    /\ call[g].fn = "handleDeleteKey" /\ req[g].pc = "done"
    /\ ui' = IF req[g].status = 200
             THEN [ui EXCEPT
                     !.message = "Key deleted successfully",
                     !.keys = SelectSeq(@, LAMBDA k : k.key # req[g].key)]
             ELSE [ui EXCEPT !.message = "Failed to delete key"]
    /\ Consumed(g)

\* await setKey(.., values.key, {type, value, ttl: 0}) from the form of a
\* string key without ttl
handleSaveKey(g) ==
    \E key \in Keys, value \in {X, Y} :
        /\ UNCHANGED ui
        /\ Calls(g, NewReq("setKey", ui.selectedConnection, ui.selectedDatabase,
                           key, "0", 0,
                           [bound |-> TRUE, Type |-> "string", Value |-> JStr(value),
                            TTL |-> 0]),
                 [NoCall EXCEPT !.fn = "handleSaveKey"])

\* newKey = {key, ttl: values.ttl ? parseInt(values.ttl) : -1, type}, which
\* replaces the descriptor of that name or is appended
Patched(keys, newKey) ==
    IF \E i \in DOMAIN keys : keys[i].key = newKey.key
    THEN [i \in DOMAIN keys |-> IF keys[i].key = newKey.key THEN newKey ELSE keys[i]]
    ELSE Append(keys, newKey)

handleSaveKeyDone(g) ==
    /\ call[g].fn = "handleSaveKey" /\ req[g].pc = "done"
    /\ ui' = IF req[g].status = 200
             THEN [ui EXCEPT
                     !.message = "Key saved successfully",
                     !.keys = Patched(@, [key |-> req[g].key, ttl |-> Whole(-1),
                                          type |-> req[g].data.Type])]
             ELSE [ui EXCEPT !.message = "Failed to save key"]
    /\ Consumed(g)

\* await executeCommand(selectedConnection, selectedDatabase, command, args)
handleExecuteCommand(g) ==
    \E c \in Commands :
        /\ UNCHANGED ui
        /\ Calls(g, NewReq("executeCommand", ui.selectedConnection,
                           ui.selectedDatabase, "", "0", 0,
                           [bound |-> TRUE, Command |-> c[1], Args |-> Tail(c)]),
                 [NoCall EXCEPT !.fn = "handleExecuteCommand"])

\* the commands after which handleExecuteCommand calls loadKeys()
Reloading == {"DEL", "SET", "EXPIRE", "PERSIST", "RENAME", "MOVE"}

\* ['DEL', 'SET', 'EXPIRE', 'PERSIST', 'RENAME', 'MOVE'].includes(command.toUpperCase())
Reloads(command) == command \in Reloading

\* setCommandResult(result) and, after some commands, loadKeys(): the call
\* of listKeys leaves in this step; or the catch
handleExecuteCommandDone(g) ==
    /\ call[g].fn = "handleExecuteCommand" /\ req[g].pc = "done"
    /\ IF req[g].status = 200 /\ Reloads(req[g].data.Command)
       THEN /\ ui' = [ui EXCEPT !.message = "Command executed successfully",
                                !.isLoadingKeys = TRUE]
            /\ \E n \in Routed(NewReq("listKeys", ui.selectedConnection,
                                       ui.selectedDatabase, "", "0", 1000, JNull)) :
                  req' = [req EXCEPT ![g] = n]
            /\ call' = [call EXCEPT ![g] = [fn |-> "loadKeys", loadMore |-> FALSE]]
            /\ UNCHANGED <<connections, clients, selected, store, served, trip, tree>>
       ELSE /\ ui' = [ui EXCEPT !.message =
                         IF req[g].status = 200 THEN "Command executed successfully"
                         ELSE "Failed to execute command"]
            /\ Consumed(g)

\* the page on connection c1 and database 0 with the key list loaded
InitEdit ==
    /\ connections = {"c1"}
    /\ clients = InitClients
    /\ selected = 0
    /\ store = [d \in DBs |->
                  IF d = 0 THEN [EmptyDB EXCEPT !["a"] = StrEntry(X, NoExpiry)]
                  ELSE EmptyDB]
    /\ req = [g \in Reqs |-> Idle]
    /\ served = 0
    /\ call = [g \in Reqs |-> NoCall]
    /\ trip = NoTrip
    /\ tree = NoTree
    /\ ui = [InitUI EXCEPT
               !.mounted = TRUE, !.connections = <<"c1">>,
               !.selectedConnection = "c1",
               !.keys = <<KeyInfo("a", DurationReply(NoExpiry), "string")>>]

\* the handlers the operator starts
Edit(g) == handleDeleteKey(g) \/ handleSaveKey(g) \/ handleExecuteCommand(g)

\* their continuations
EditDone(g) ==
    \/ handleDeleteKeyDone(g) \/ handleSaveKeyDone(g)
    \/ handleExecuteCommandDone(g) \/ LoadKeysDone(g)

ServeEdit(g) ==
    \/ Select(g)
    \/ DeleteKeyDel(g) \/ SetKeySet(g) \/ ExecuteCommandDo(g)
    \/ ListKeysKeys(g) \/ ListKeysTTL(g) \/ ListKeysType(g)

\* one handler of the page at a time
NextEdit == \E g \in Reqs : (Quiet /\ Edit(g)) \/ EditDone(g) \/ ServeEdit(g)

SpecEdit == InitEdit /\ [][NextEdit]_vars

----------------------------------------------------------------------------
(* The page against the interface it is written for: the answers of         *)
(* listKeys are any the api client can hand over, a KeyListResponse with a  *)
(* cursor among them                                                        *)

\* the batches of a KeyListResponse
Descriptors ==
    { <<>>,
      <<KeyInfo("a", DurationReply(NoExpiry), "string")>>,
      <<KeyInfo("b", DurationReply(1), "list")>> }

\* export interface KeyListResponse { keys; nextCursor; hasMore }
KeyListResponse(keys, nextCursor) ==
    JObj([keys |-> JArr(keys), nextCursor |-> nextCursor,
          hasMore |-> nextCursor # "0"])

\* what the await of listKeys can give: a KeyListResponse, the array the
\* server sends, or an error status
Answers(r) ==
    {Reply(r, 200, KeyListResponse(keys, c)) : keys \in Descriptors, c \in {"0", "5"}}
        \cup {Reply(r, 200, JArr(keys)) : keys \in Descriptors}
        \cup {Reply(r, 500, ErrBody("Failed to scan keys")),
              Reply(r, 404, ErrBody("Connection not found"))}

\* the response of a listKeys call arrives
Answer(g) ==
    /\ req[g].op = "listKeys" /\ req[g].pc = "select"
    /\ \E r \in Answers(req[g]) : req' = [req EXCEPT ![g] = r]
    /\ UNCHANGED <<connections, clients, selected, store, served, ui, call, trip, tree>>

\* the page with its connections loaded and c1 selected
InitPage ==
    /\ connections = {"c1"}
    /\ clients = InitClients
    /\ selected = 0
    /\ store = [d \in DBs |-> EmptyDB]
    /\ req = [g \in Reqs |-> Idle]
    /\ served = 0
    /\ call = [g \in Reqs |-> NoCall]
    /\ trip = NoTrip
    /\ tree = NoTree
    /\ ui = [InitUI EXCEPT !.mounted = TRUE, !.connections = <<"c1", "c2">>,
                           !.selectedConnection = "c1"]

NextPage ==
    \E g \in Reqs :
        \/ SelectConnection(g) \/ SelectDatabase(g) \/ ScanMore(g)
        \/ Answer(g)
        \/ LoadKeysDone(g)

SpecPage == InitPage /\ [][NextPage]_vars

----------------------------------------------------------------------------
(* The registry: the map `connections` is a package variable that the       *)
(* handlers read and write from their goroutines with no lock.  A map       *)
(* access takes two steps, its start and its end                            *)

\* the request stands in a map access
Reading(r) == r.pc \in {"read", "range"}
Writing(r) == r.pc = "write"
Accessing(r) == Reading(r) \/ Writing(r)

\* the Go runtime at the start of a map access: when another goroutine is
\* writing the map it may throw the fatal error "concurrent map read and map
\* write" or "concurrent map writes", which ends the process, or not notice
Detected(g) ==
    IF \E h \in Reqs \ {g} : Writing(req[h]) THEN BOOLEAN ELSE {FALSE}

\* the value a write under way is storing: the new client, or none
Pending(r) == IF r.op = "createConnection" THEN r.client ELSE 0

\* client, exists := connections[id]: the client of the map, or what a
\* write of another goroutine is storing under that id at the same time
Found(g) ==
    {clients.of[req[g].id]} \cup
    {Pending(req[h]) : h \in {h \in Reqs \ {g} :
                                  Writing(req[h]) /\ req[h].id = req[g].id}}

\* a request arrives and its handler runs up to r
Handles(g, r) ==
    /\ ~clients.fatal
    /\ served < MaxRequests
    /\ served' = served + 1
    /\ req[g].pc = "idle"
    /\ \A h \in Reqs : req[h].pc = "idle" => g <= h
    /\ req' = [req EXCEPT ![g] = r]
    /\ UNCHANGED <<connections, selected, store, ui, call, trip, tree>>

\* createConnection up to client.Ping
CreateConnectionStart(g) ==
    \E id \in ConnIds :
        /\ Handles(g, [NewReq("createConnection", id, 0, "", "0", 0, JNull)
                          EXCEPT !.pc = "ping"])
        /\ UNCHANGED clients

\* client.Ping(c), and the start of connections[connID] = client
CreateConnectionPing(g) ==
    /\ ~clients.fatal
    /\ req[g].pc = "ping"
    /\ \E ok \in BOOLEAN :
        IF ok
        THEN \E fatal \in Detected(g) :
               /\ clients' = [clients EXCEPT !.made = @ + 1, !.fatal = fatal]
               /\ req' = [req EXCEPT ![g].pc = "write",
                                     ![g].client = clients.made + 1]
        ELSE /\ req' = [req EXCEPT
                          ![g] = Reply(req[g], 400, ErrBody("Failed to connect to Redis"))]
             /\ UNCHANGED clients
    /\ UNCHANGED <<connections, selected, store, served, ui, call, trip, tree>>

\* the end of connections[connID] = client, and c.JSON(200, {"id": connID})
CreateConnectionSet(g) ==
    /\ ~clients.fatal
    /\ req[g].op = "createConnection" /\ req[g].pc = "write"
    /\ clients' = [clients EXCEPT !.of[req[g].id] = req[g].client]
    /\ connections' = connections \cup {req[g].id}
    /\ req' = [req EXCEPT ![g] = Reply(req[g], 200, JObj([id |-> req[g].id]))]
    /\ UNCHANGED <<selected, store, served, ui, call, trip, tree>>

\* a handler that starts with the lookup connections[id]
Looks(g, op, key) ==
    \E id \in ConnIds, fatal \in Detected(g) :
        /\ Handles(g, [NewReq(op, id, 0, key, "0", 0, JNull) EXCEPT !.pc = "read"])
        /\ clients' = [clients EXCEPT !.fatal = fatal]

DeleteConnectionStart(g) == Looks(g, "deleteConnection", "")

\* if client, exists := connections[id]; exists { client.Close(), and the
\* start of delete(connections, id)
DeleteConnectionClose(g) ==
    /\ ~clients.fatal
    /\ req[g].op = "deleteConnection" /\ req[g].pc = "read"
    /\ \E client \in Found(g) :
        IF client # 0
        THEN \E fatal \in Detected(g) :
               /\ clients' = [clients EXCEPT !.closed = @ \cup {client},
                                             !.fatal = fatal]
               /\ req' = [req EXCEPT ![g].pc = "write", ![g].client = client]
        ELSE /\ req' = [req EXCEPT ![g] = NotFound(req[g])]
             /\ UNCHANGED clients
    /\ UNCHANGED <<connections, selected, store, served, ui, call, trip, tree>>

\* the end of delete(connections, id), and c.Status(http.StatusOK)
DeleteConnectionDelete(g) ==
    /\ ~clients.fatal
    /\ req[g].op = "deleteConnection" /\ req[g].pc = "write"
    /\ clients' = [clients EXCEPT !.of[req[g].id] = 0]
    /\ connections' = connections \ {req[g].id}
    /\ req' = [req EXCEPT ![g] = Reply(req[g], 200, JNull)]
    /\ UNCHANGED <<selected, store, served, ui, call, trip, tree>>

\* listConnections: for id := range connections
ListConnectionsRange(g) ==
    \E fatal \in Detected(g) :
        /\ Handles(g, [NewReq("listConnections", "", 0, "", "0", 0, JNull)
                          EXCEPT !.pc = "range"])
        /\ clients' = [clients EXCEPT !.fatal = fatal]

ListConnectionsRanged(g) ==
    /\ ~clients.fatal
    /\ req[g].pc = "range"
    /\ \E r \in ListConnectionsReplies(req[g]) : req' = [req EXCEPT ![g] = r]
    /\ UNCHANGED <<connections, clients, selected, store, served, ui, call, trip, tree>>

\* deleteKey for the key handlers: client, exists := connections[id]
DeleteKeyLooks(g) == \E key \in Keys : Looks(g, "deleteKey", key)

DeleteKeyFound(g) ==
    /\ ~clients.fatal
    /\ req[g].op = "deleteKey" /\ req[g].pc = "read"
    /\ \E client \in Found(g) :
          req' = [req EXCEPT
                    ![g] = IF client # 0
                           THEN [req[g] EXCEPT !.pc = "select", !.client = client]
                           ELSE NotFound(req[g])]
    /\ UNCHANGED <<connections, clients, selected, store, served, ui, call, trip, tree>>

\* a command on a client that was closed returns the error redis.ErrClosed
Closed(g, cmd, status, msg) ==
    /\ req' = [req EXCEPT ![g] = Reply(Sent(req[g], cmd, FALSE), status, ErrBody(msg))]
    /\ UNCHANGED <<connections, clients, selected, store, served, ui, call, trip, tree>>

\* client.Do(c, "SELECT", db) on the client the lookup gave
SelectOn(g) ==
    /\ ~clients.fatal
    /\ req[g].pc = "select"
    /\ IF req[g].client \in clients.closed
       THEN Closed(g, "SELECT", 500,
                   "Failed to select database: redis: client is closed")
       ELSE Select(g)

\* client.Del(c, key) on the client the lookup gave
DeleteKeyDelOn(g) ==
    /\ ~clients.fatal
    /\ req[g].pc = "delete"
    /\ IF req[g].client \in clients.closed
       THEN Closed(g, "DEL", 500, "redis: client is closed")
       ELSE DeleteKeyDel(g)

\* the handlers run in their goroutines as long as the process lives
Returns(g) == ~clients.fatal /\ Return(g)

NextReg ==
    \E g \in Reqs :
        \/ CreateConnectionStart(g) \/ CreateConnectionPing(g)
        \/ CreateConnectionSet(g)
        \/ DeleteConnectionStart(g) \/ DeleteConnectionClose(g)
        \/ DeleteConnectionDelete(g)
        \/ ListConnectionsRange(g) \/ ListConnectionsRanged(g)
        \/ DeleteKeyLooks(g) \/ DeleteKeyFound(g)
        \/ SelectOn(g) \/ DeleteKeyDelOn(g)
        \/ Returns(g)

SpecReg == Init /\ [][NextReg]_vars

----------------------------------------------------------------------------
(* Properties *)

Done(r, op) == r.op = op /\ r.pc = "done"
Listed(r) == Done(r, "listKeys") /\ r.status = 200

\* the key descriptors of a listKeys reply
Batch(body) == IF IsArr(body) THEN body.v ELSE body.v.keys.v
Names(batch) == {batch[i].key : i \in DOMAIN batch}

Mutating == {"SET", "DEL", "RPUSH", "SADD", "HSET", "ZADD", "EXPIRE", "FLUSHDB"}
Mutations(r) == {i \in DOMAIN r.log : r.log[i].cmd \in Mutating}

\* C1: every command a request sends after its SELECT is run by the server on
\* the database the request named, whatever other requests do meanwhile
C1_OperatesOnSelected ==
    \A g \in Reqs : \A i \in DOMAIN req[g].log :
        LET e == req[g].log[i]
        IN  (e.cmd # "SELECT" /\ e.ok) => e.on = req[g].db

\* C2: one listKeys call fetches and returns at most batchSize keys
C2_BatchBounded ==
    \A g \in Reqs :
        Listed(req[g]) =>
            /\ Len(req[g].keys) <= req[g].batchSize
            /\ Len(Batch(req[g].body)) <= req[g].batchSize

\* the page has no further batch to ask for
ScanOver(u) == u.cursor \in {Undefined, "", "0"}

\* a successful listKeys reply reaches loadKeys and leaves nothing to scan
ScanEnds(g) ==
    /\ call[g].fn = "loadKeys" /\ call'[g] = NoCall
    /\ req[g].status = 200
    /\ ScanOver(ui')

\* C3: when a scan that began at cursor "0" has run until nothing is left,
\* the batches together hold every key of the database exactly once
C3_ScanComplete ==
    [][\A g \in Reqs :
          ScanEnds(g) =>
              /\ Names(ui'.keys) = RedisKeys(req[g].db)
              /\ Len(ui'.keys) = Cardinality(RedisKeys(req[g].db))]_vars

C5_Triple ==
    \A g \in Reqs :
        Listed(req[g]) =>
            /\ IsObj(req[g].body)
            /\ DOMAIN req[g].body.v = {"keys", "nextCursor", "hasMore"}
            /\ req[g].body.v.hasMore = (req[g].body.v.nextCursor # "0")

\* the TTL and TYPE commands listKeys sent for its i-th key
TTLSent(r, i) == r.log[2 * i + 1]
TypeSent(r, i) == r.log[2 * i + 2]

\* C6: once the key names are fetched, listKeys answers 200 with one
\* descriptor per name in the same order whichever lookups fail; a failed
\* type lookup gives "unknown", and every lookup that did not fail gives what
\* the server holds for that key
C6_LookupFailuresKept ==
    \A g \in Reqs :
        LET r == req[g]
        IN  (Done(r, "listKeys") /\ Len(r.log) >= 2 /\ r.log[2].ok) =>
                /\ r.status = 200
                /\ Len(Batch(r.body)) = Len(r.keys)
                /\ \A i \in DOMAIN r.keys :
                     LET d == Batch(r.body)[i]
                     IN  /\ d.key = r.keys[i]
                         /\ ~TypeSent(r, i).ok => d.type = "unknown"
                         /\ TypeSent(r, i).ok => d.type = store[r.db][d.key].type
                         /\ TTLSent(r, i).ok =>
                              d.ttl = Seconds(DurationReply(RedisTTL(r.db, d.key)))

C6_Witness ==
    \E g \in Reqs :
        /\ Listed(req[g]) /\ Len(req[g].keys) = 2
        /\ ~TypeSent(req[g], 1).ok /\ TypeSent(req[g], 2).ok
        /\ ~TTLSent(req[g], 2).ok /\ TTLSent(req[g], 1).ok

\* C7: every ttl of a listKeys reply is a whole number of seconds that is
\* non-negative, -1 or -2
C7_TTLSeconds ==
    \A g \in Reqs :
        Listed(req[g]) =>
            \A i \in DOMAIN Batch(req[g].body) :
                LET ttl == Batch(req[g].body)[i].ttl
                IN  ttl.nsec = 0 /\ (ttl.sec >= 0 \/ ttl.sec \in {-1, -2})

\* what a collection entry holds when it holds exactly the payload
Submitted(data) ==
    LET v == data.Value.v
    IN  CASE data.Type = "list" -> [i \in DOMAIN v |-> appendArg(v[i])]
          [] data.Type = "set" -> {appendArg(v[i]) : i \in DOMAIN v}
          [] data.Type = "hash" -> [f \in DOMAIN v |-> appendArg(v[f])]
          [] OTHER -> [m \in {appendArg(Member(v[i])) : i \in DOMAIN v} |->
                         v[CHOOSE i \in DOMAIN v :
                               appendArg(Member(v[i])) = m].v.score.v]

HoldsExactly(e, data) ==
    IF DOMAIN data.Value.v = {} THEN e.type = "none"
    ELSE e.type = data.Type /\ e.val = Submitted(data)

Stored(r, t) ==
    /\ Done(r, "setKey") /\ r.status = 200
    /\ r.data.Type = t

Mismatch(data) ==
    \/ data.Type \in {"list", "set", "zset"} /\ ~IsArr(data.Value)
    \/ data.Type = "hash" /\ ~IsObj(data.Value)
    \/ /\ data.Type = "zset" /\ IsArr(data.Value)
       /\ \E i \in DOMAIN data.Value.v : ~ZItemOK(data.Value.v[i])

\* the request is a setKey whose body is bound
Bound(r) == r.op = "setKey" /\ "bound" \in DOMAIN r.data /\ r.data.bound

\* C9: a setKey whose payload does not match its type sends no DEL, write or
\* EXPIRE and is answered with an error
C9_RejectedBeforeMutation ==
    \A g \in Reqs :
        (Bound(req[g]) /\ Mismatch(req[g].data)) =>
            /\ Mutations(req[g]) = {}
            /\ req[g].pc = "done" => req[g].status >= 400

Unsupported(r) == Bound(r) /\ r.data.Type \notin Types

\* C10: the step in which setKey meets a type tag outside the five answers
\* 400 "Unsupported key type", has sent nothing but the SELECT and leaves
\* every stored value and expiry as it was
C10_UnsupportedType ==
    [][\A g \in Reqs :
          (Unsupported(req'[g]) /\ req'[g] # req[g]) =>
              /\ store' = store
              /\ req'[g].pc = "done" /\ req'[g].status = 400
              /\ req'[g].body = ErrBody("Unsupported key type")
              /\ Mutations(req'[g]) = {}]_vars

C10_Witness ==
    \E g \in Reqs :
        /\ Unsupported(req[g]) /\ req[g].pc = "done"
        /\ Exists(req[g].db, req[g].key)
        /\ store[req[g].db][req[g].key].exp # NoExpiry

\* getKey shows the stored scalar b as a binary wrapper
ReadAsBlob(b) == ~IsJSON(b) /\ isBinary(b)

\* every scalar of the entry e that getKey shows as a binary wrapper is in
\* the entry f with the same bytes at the same place
BlobsKept(e, f) ==
    /\ f.type = e.type
    /\ CASE e.type = "string" -> ReadAsBlob(e.val) => f.val = e.val
         [] e.type = "list" ->
                \A i \in DOMAIN e.val :
                    ReadAsBlob(e.val[i]) => i \in DOMAIN f.val /\ f.val[i] = e.val[i]
         [] e.type = "set" -> \A m \in e.val : ReadAsBlob(m) => m \in f.val
         [] e.type = "hash" ->
                \A h \in DOMAIN e.val :
                    ReadAsBlob(e.val[h]) => h \in DOMAIN f.val /\ f.val[h] = e.val[h]
         [] OTHER ->
                \A m \in DOMAIN e.val :
                    ReadAsBlob(m) => m \in DOMAIN f.val /\ f.val[m] = e.val[m]

\* the client read the key and its write of what it read was answered 200
WroteBack == trip.phase # "off" /\ trip.start = "read" /\ trip.written

\* C11: after a scalar that getKey returned as a binary wrapper is sent back
\* unchanged with setKey (same key, same type), the key holds the original
\* bytes of that scalar
C11_BlobWriteBack == WroteBack => BlobsKept(trip.orig, store[0]["a"])

\* the client set a string of its own and read it back
SetThenGot == trip.phase = "end" /\ trip.start = "write"

\* C12: a string with a byte below 32 or above 126, set and then fetched,
\* comes back as the binary wrapper with the base64 of exactly its bytes
C12_BinarySafe ==
    (SetThenGot /\ isBinary(trip.orig.val)) =>
        trip.second.v.value = Blob(trip.orig.val)

\* two envelopes are equal; the members of a set come in no fixed order
SameEnvelope(a, b) ==
    /\ a.v.type = b.v.type
    /\ IF a.v.type = "set"
       THEN /\ Len(a.v.value.v) = Len(b.v.value.v)
            /\ Range(a.v.value.v) = Range(b.v.value.v)
       ELSE a.v.value = b.v.value

\* C13: the envelope getKey decodes after the payload of the first envelope
\* was written back with setKey equals the first envelope
C13_RoundTrip ==
    (trip.phase = "end" /\ trip.start = "read" /\ trip.how = "same") =>
        SameEnvelope(trip.first, trip.second)

\* the decoding rule by the bytes of one scalar
ByRule(b) ==
    IF IsJSON(b) THEN ParseJSON(b)
    ELSE IF \A i \in DOMAIN b : b[i] >= 32 /\ b[i] <= 126 THEN JStr(b)
    ELSE JObj([type |-> JStr(Binary), data |-> JStr(Base64(b))])

\* the value of the envelope holds the scalars of the entry e, each by the rule
EachByRule(e, value) ==
    CASE e.type = "string" -> value = ByRule(e.val)
      [] e.type = "list" ->
            /\ IsArr(value) /\ Len(value.v) = Len(e.val)
            /\ \A i \in DOMAIN e.val : value.v[i] = ByRule(e.val[i])
      [] e.type = "set" ->
            /\ IsArr(value) /\ Len(value.v) = Cardinality(e.val)
            /\ Range(value.v) = {ByRule(m) : m \in e.val}
      [] e.type = "hash" ->
            /\ IsObj(value) /\ DOMAIN value.v = DOMAIN e.val
            /\ \A h \in DOMAIN e.val : value.v[h] = ByRule(e.val[h])
      [] OTHER ->
            /\ IsArr(value) /\ Len(value.v) = Cardinality(DOMAIN e.val)
            /\ {<<value.v[i].v.score, value.v[i].v.member>> : i \in DOMAIN value.v}
                 = {<<JNum(e.val[m]), ByRule(m)>> : m \in DOMAIN e.val}

\* C14: getKey decodes every scalar of the value on its own: parsed JSON if
\* the bytes are JSON, else the plain string if every byte is in [32,126],
\* else the binary wrapper with the base64 of the bytes
C14_DecodeRule ==
    \A g \in Reqs :
        (Done(req[g], "getKey") /\ req[g].status = 200) =>
            /\ req[g].body.v.type = store[req[g].db][req[g].key].type
            /\ EachByRule(store[req[g].db][req[g].key], req[g].body.v.value)

\* a list of a number, read next to a binary element
C14_Witness ==
    \E g \in Reqs :
        /\ Done(req[g], "getKey") /\ req[g].status = 200
        /\ store[0]["a"] = ListEntry(<<<<52>>, <<255>>>>, NoExpiry)
        /\ req[g].body.v.value = JArr(<<JNum(4), Blob(<<255>>)>>)

\* a setKey answered 200
SetDone(r) == Done(r, "setKey") /\ r.status = 200

\* C15: after a setKey with ttl 0 answered 200 the key has no expiry, for
\* each of the five types, also when the key had an expiry before
C15_ZeroTTL ==
    \A g \in Reqs :
        (SetDone(req[g]) /\ req[g].data.TTL = 0) =>
            /\ Exists(req[g].db, req[g].key)
            /\ store[req[g].db][req[g].key].exp = NoExpiry

\* the first request of the run wrote a string with ttl 0 over the list that
\* had an expiry
C15_Witness ==
    /\ served = 1
    /\ \E g \in Reqs :
        /\ SetDone(req[g]) /\ req[g].data.TTL = 0 /\ req[g].data.Type = "string"
        /\ req[g].db = 0 /\ req[g].key = "a"

\* the positions of the log of r that hold the command cmd
At(r, cmd) == {i \in DOMAIN r.log : r.log[i].cmd = cmd}

Writes == {"RPUSH", "SADD", "HSET", "ZADD"}

\* C16: for a collection the EXPIRE is sent once, after every element of
\* the payload was written; when it fails the answer is the error "Failed
\* to set TTL", which is not the error of a failed write, and the key keeps
\* the new value (without expiry)
C16_TTLAfterPopulation ==
    \A g \in Reqs :
        LET r == req[g]
        IN  (r.op = "setKey" /\ At(r, "EXPIRE") # {}) =>
                /\ At(r, "EXPIRE") = {Len(r.log)}
                /\ r.data.Type \in Collections /\ r.data.TTL >= 2
                /\ Cardinality({i \in DOMAIN r.log :
                                   r.log[i].cmd \in Writes /\ r.log[i].ok})
                     = Len(r.keys)
                /\ \A i \in DOMAIN r.log : r.log[i].cmd \in Writes => r.log[i].ok
                /\ r.pc = "done"
                /\ HoldsExactly(store[r.db][r.key], r.data)
                /\ IF r.log[Len(r.log)].ok
                   THEN /\ r.status = 200
                        /\ store[r.db][r.key].exp = r.data.TTL \div 2
                   ELSE /\ r.status = 500
                        /\ r.body = ErrBody("Failed to set TTL")
                        /\ r.body # SetFailed(r).body
                        /\ store[r.db][r.key].exp = NoExpiry

\* the EXPIRE after a hash of two fields failed
C16_Witness ==
    \E g \in Reqs :
        /\ Done(req[g], "setKey") /\ At(req[g], "EXPIRE") # {}
        /\ req[g].data.Type = "hash" /\ ~req[g].log[Len(req[g].log)].ok
        /\ DOMAIN store[req[g].db][req[g].key].val = {"f", "g"}

\* an executeCommand whose body was bound has ended
Executed(r) ==
    /\ Done(r, "executeCommand")
    /\ "bound" \in DOMAIN r.data /\ r.data.bound

\* C17: executeCommand sends exactly the vector [command, arg1, .., argn],
\* whatever the command is; the answer of the server is the result of the
\* response, and an error of the server is the error text of the response
C17_PassThrough ==
    \A g \in Reqs :
        LET r == req[g]
        IN  Executed(r) =>
                /\ Len(r.log) = 2
                /\ r.argv = <<r.data.Command>> \o r.data.Args
                /\ r.reply # JNull =>
                      IF r.reply.ok
                      THEN r.status = 200 /\ r.body = JObj([result |-> r.reply.result])
                      ELSE r.status = 500 /\ r.body = r.reply.result

\* the server did not know the command KEYZ and its error text came back
C17_Witness ==
    \E g \in Reqs :
        /\ Executed(req[g]) /\ req[g].argv = <<"KEYZ">>
        /\ req[g].reply # JNull /\ ~req[g].reply.ok
        /\ req[g].body = ErrBody("ERR unknown command")

\* the keys counted under the node n of the tree: one for a leaf, the
\* number in the title for a folder
descendantKeyCount(n) == IF n.isLeaf THEN 1 ELSE n.title.keys

RECURSIVE SumCounts(_, _)
SumCounts(nodes, ns) ==
    IF ns = <<>> THEN 0
    ELSE descendantKeyCount(nodes[Head(ns)]) + SumCounts(nodes, Tail(ns))

TreeBuilt(by) == tree.phase = "built" /\ tree.by = by

\* C18: the key counts of the top-level nodes of the tree buildTree returns
\* add up to the number of descriptors of the batch
C18_CountsAddUp ==
    TreeBuilt("buildTree") =>
        SumCounts(tree.nodes, tree.rootNodes) = Len(tree.keys)

\* the name is a colon-prefix of another name of the batch
IsPrefix(name, keys) ==
    \E i \in DOMAIN keys :
        /\ Len(keys[i].key) > Len(name)
        /\ SubSeq(keys[i].key, 1, Len(name) + 1) = name \o <<Colon>>

\* C19: a name that is a key of the batch and a colon-prefix of another key
\* has one node, marked leaf, with the type and ttl of that key and with
\* children, in whatever order the descriptors come
C19_LeafAndFolder ==
    tree.phase = "built" =>
        \A i \in DOMAIN tree.keys :
            IsPrefix(tree.keys[i].key, tree.keys) =>
                /\ Cardinality({n \in DOMAIN tree.nodes :
                                   tree.nodes[n].key = tree.keys[i].key}) = 1
                /\ \E n \in DOMAIN tree.nodes, k \in DOMAIN tree.keys :
                     /\ tree.nodes[n].key = tree.keys[i].key
                     /\ tree.keys[k].key = tree.keys[i].key
                     /\ tree.nodes[n].isLeaf
                     /\ tree.nodes[n].type = tree.keys[k].type
                     /\ tree.nodes[n].ttl = tree.keys[k].ttl
                     /\ tree.nodes[n].children # <<>>

\* C20: the key of every node marked leaf is the name of a descriptor of
\* the batch
C20_LeafIsKey ==
    tree.phase = "built" =>
        \A n \in DOMAIN tree.nodes :
            tree.nodes[n].isLeaf =>
                \E i \in DOMAIN tree.keys : tree.keys[i].key = tree.nodes[n].key

RECURSIVE LeavesUnder(_, _)
\* the nodes marked leaf below the nodes ns of the tree, these included
LeavesUnder(nodes, ns) ==
    IF ns = <<>> THEN 0
    ELSE (IF nodes[Head(ns)].isLeaf THEN 1 ELSE 0)
         + LeavesUnder(nodes, nodes[Head(ns)].children)
         + LeavesUnder(nodes, Tail(ns))

\* C21: the count in the title of every folder of the tree buildTree returns
\* is the number of leaves of its whole subtree, and an empty batch gives no
\* root node
C21_FolderCounts ==
    TreeBuilt("buildTree") =>
        /\ \A n \in DOMAIN tree.nodes :
             ~tree.nodes[n].isLeaf =>
                 tree.nodes[n].title.keys = LeavesUnder(tree.nodes, tree.nodes[n].children)
        /\ tree.keys = <<>> => tree.rootNodes = <<>>

\* the continuation of the call of request g runs in this step
Continues(g, fn) == call[g].fn = fn /\ req[g].pc = "done" /\ call'[g] = NoCall

\* the reply says that the store has no database of the requested index
RejectedSelect(r) ==
    /\ r.status = 500
    /\ r.body = ErrBody("Failed to select database: ERR DB index is out of range")

\* C22: a listKeys reply that reports a rejected database select leaves the
\* connection list and the selected connection of the page as they are
C22_OnlyConnectionError ==
    [][\A g \in Reqs :
         (Continues(g, "loadKeys") /\ RejectedSelect(req[g])) =>
             /\ ui'.connections = ui.connections
             /\ ui'.selectedConnection = ui.selectedConnection]_vars

\* the first command of the request was SELECT, and a failed SELECT was its
\* last command, answered by an error
SelectFirst(r) ==
    r.log # <<>> =>
        /\ r.log[1].cmd = "SELECT"
        /\ ~r.log[1].ok => Len(r.log) = 1 /\ r.pc = "done" /\ r.status = 500

\* C23: every request of a key handler sends SELECT before any other
\* command, the SELECT that succeeds selects the requested database, and
\* after a SELECT that fails the request sends nothing more and is answered
\* by an error
C23_SelectFirst ==
    /\ [](\A g \in Reqs : SelectFirst(req[g]))
    /\ [][\A g \in Reqs :
            (req[g].pc = "select" /\ req'[g].pc # "select" /\ req'[g].log[1].ok)
                => selected' = req[g].db]_vars

C23_Witness ==
    \E g, h \in Reqs :
        /\ req[g].op = "deleteKey" /\ req[g].pc = "done" /\ req[g].status = 500
        /\ Len(req[g].log) = 1 /\ ~req[g].log[1].ok
        /\ req[h].op = "setKey" /\ Len(req[h].log) > 1 /\ req[h].db = 1

\* C24: a descriptor with the ttl -2 is shown as the text Error, never as a
\* duration, and no countdown runs for it
C24_SentinelNotDuration ==
    (ui.panel.phase = "open" /\ ui.panel.info.ttl = Whole(-2)) =>
        /\ ui.panel.text = Text("Error")
        /\ ~ui.panel.timer
        /\ ui.panel.ticks = 0

C24_Witness ==
    /\ ui.panel.phase = "open"
    /\ ui.panel.info.ttl = Whole(-2)
    /\ ui.panel.text.kind = "text"

\* the continuation of a mutation of the page that succeeded runs in this step
Mutated(g) ==
    /\ call[g].fn \in {"handleDeleteKey", "handleSaveKey", "handleExecuteCommand"}
    /\ req[g].pc = "done" /\ req[g].status = 200
    /\ call'[g] # call[g]

\* the names of the cached key list are those of the selected database
UpToDate(u) == {u.keys[i].key : i \in DOMAIN u.keys} = RedisKeys(u.selectedDatabase)

\* C25: when a mutation of the page has succeeded, its continuation either
\* starts a reload of the key list or leaves the cached list with exactly the
\* names of the keys of the database
C25_ListRefreshed ==
    [][\A g \in Reqs :
         Mutated(g) => call'[g].fn = "loadKeys" \/ UpToDate(ui')]_vars

\* a key handler that holds a client and has not answered yet
Holds(r) == r.op = "deleteKey" /\ r.pc \in {"select", "delete"}

\* C26: no request reads or writes the map of the registry while another
\* request writes it, and no key handler holds a client that deleteConnection
\* has closed
C26_RegistryExclusive ==
    /\ \A g, h \in Reqs :
         g # h => ~(Writing(req[g]) /\ Accessing(req[h]))
    /\ \A g \in Reqs : Holds(req[g]) => req[g].client \notin clients.closed

\* two setKey of the same collection type for the same key of the same
\* database, both answered 200
BothStored(r, q) ==
    /\ SetDone(r) /\ SetDone(q)
    /\ r.data.Type \in Collections /\ q.data.Type = r.data.Type
    /\ q.db = r.db /\ q.key = r.key

\* C27: when two setKey of the same collection type for the same key have
\* both answered 200, the key holds exactly the payload of one of them
C27_OneOfTwo ==
    \A g, h \in Reqs :
        (g # h /\ BothStored(req[g], req[h])) =>
            \/ HoldsExactly(store[req[g].db][req[g].key], req[g].data)
            \/ HoldsExactly(store[req[h].db][req[h].key], req[h].data)

\* the write commands of the request the server accepted
Accepted(r) == {i \in At(r, "RPUSH") \cup At(r, "SADD") \cup At(r, "HSET") \cup At(r, "ZADD") :
                   r.log[i].ok}

\* the payload cut down to the first n elements in the order of the loop
FirstOf(r, n) ==
    LET v == r.data.Value.v
        taken == {r.keys[j] : j \in 1..n}
    IN  [r.data EXCEPT
           !.Value = IF r.data.Type = "hash"
                     THEN JObj([f \in taken |-> v[f]])
                     ELSE JArr(SubSeq(v, 1, n))]

\* a setKey of a collection whose population loop met an error
WriteFailed(r) ==
    /\ Done(r, "setKey") /\ Bound(r) /\ r.data.Type \in Collections
    /\ r.err

\* C28: when a write of the population loop of setKey fails, the request
\* sends no further write and no EXPIRE, is answered by an error, and the
\* key holds exactly the elements written before the failure
C28_StopsAtFailure ==
    \A g \in Reqs :
        LET r == req[g]
        IN  WriteFailed(r) =>
                /\ r.status = 500
                /\ At(r, "EXPIRE") = {}
                /\ \A i \in DOMAIN r.log :
                     (r.log[i].cmd \in Writes /\ ~r.log[i].ok) => i = Len(r.log)
                /\ HoldsExactly(store[r.db][r.key], FirstOf(r, Cardinality(Accepted(r))))

\* the second RPUSH of a list with a ttl failed, over the list that was there
C28_Witness ==
    \E g \in Reqs :
        /\ WriteFailed(req[g]) /\ req[g].data.Type = "list" /\ req[g].data.TTL > 0
        /\ req[g].db = 0 /\ req[g].key = "a" /\ served = 1
        /\ Cardinality(Accepted(req[g])) = 1
        /\ store[0]["a"].val = <<X>>

\* a call of loadKeys() without loadMore is under way for request g
Fresh(g) == call[g].fn = "loadKeys" /\ ~call[g].loadMore

\* the response is a KeyListResponse
WellFormed(r) == r.status = 200 /\ IsObj(r.body) /\ Has(r.body, "keys")

Stale(g) ==
    \/ req[g].id # ui.selectedConnection
    \/ req[g].db # ui.selectedDatabase
    \/ /\ call[g].loadMore
       /\ \E h \in Reqs \ {g} : Fresh(h) /\ req[h].op = "listKeys"

====
